---- MODULE Spec2Model ----
(***************************************************************************)
(* Model of the score-test engine of clinical-trial-stats                  *)
(* (src/src/result-validation/two-group.js) and of the normal-quantile     *)
(* leaf with its LRU cache (src/src/core/normal-distribution.js,           *)
(* src/src/utils/lru-cache.js).                                            *)
(*                                                                         *)
(* JavaScript numbers are modelled as decimal fixed-point numbers with 16  *)
(* fractional digits (resolution 1e-16, the order of the double's epsilon  *)
(* on [0,1]) plus the special value NaN.  TLC's integers are 32 bit wide,  *)
(* so the fixed-point numbers are kept as arbitrary-precision integers:    *)
(* sequences of base-10000 limbs, least significant first.  Every          *)
(* arithmetic operation of the source is one fixed-point operation here,   *)
(* rounded toward zero.                                                    *)
(***************************************************************************)
EXTENDS Integers, Sequences, FiniteSets, TLC

\* ------------------------------------------------------------------------
\* Arbitrary-precision naturals: <<l1, ..., lk>> is l1 + l2*B + l3*B^2 ...
\* with 0 <= li < B and lk # 0; <<>> is zero.
\* ------------------------------------------------------------------------
B == 100 * 100

Min2(a, b) == IF a < b THEN a ELSE b
Max2(a, b) == IF a > b THEN a ELSE b

\* s without its leading (most significant) zero limbs.
BTrim(s) ==
  IF \A i \in 1..Len(s) : s[i] = 0 THEN <<>>
  ELSE SubSeq(s, 1, CHOOSE k \in 1..Len(s) :
                      s[k] # 0 /\ \A j \in (k + 1)..Len(s) : s[j] = 0)

\* The limbs of a TLC integer 0 <= n < 2^31.
BFromInt(n) ==
  IF n = 0 THEN <<>>
  ELSE IF n < B THEN <<n>>
  ELSE IF n < B * B THEN <<n % B, n \div B>>
  ELSE <<n % B, (n \div B) % B, n \div (B * B)>>

Limb(a, i) == IF i >= 1 /\ i <= Len(a) THEN a[i] ELSE 0

\* The function f on 1..n as a sequence, its elements computed once.
BSeq(f) == f \o <<>>

\* The element of the singleton S. In The({e : v \in {x}}) the value x is
\* computed once, before e reads it as v: a const of the source.
The(S) == CHOOSE v \in S : TRUE

\* -1, 0, 1 as a < b, a = b, a > b: the most significant limb that differs
\* decides.
BCmp(a, b) ==
  IF Len(a) < Len(b) THEN -1
  ELSE IF Len(a) > Len(b) THEN 1
  ELSE IF a = b THEN 0
  ELSE IF \E i \in 1..Len(a) :
            a[i] < b[i] /\ \A j \in (i + 1)..Len(a) : a[j] = b[j]
  THEN -1
  ELSE 1

\* The carry into limb i of the limb sums s (each at most 2B - 2): a limb
\* below i overflows and every limb between passes the carry on.
BCarryIn(s, i) ==
  \E j \in 1..(i - 1) : s[j] >= B /\ \A m \in (j + 1)..(i - 1) : s[m] = B - 1

\* The limbs of the limb sums s with the carries added.
BResolve(s) ==
  [i \in 1..Len(s) |-> (s[i] + (IF BCarryIn(s, i) THEN 1 ELSE 0)) % B]
    \o (IF BCarryIn(s, Len(s) + 1) THEN <<1>> ELSE <<>>)

BAdd(a, b) ==
  IF Len(a) = 0 THEN b
  ELSE IF Len(b) = 0 THEN a
  ELSE BResolve(BSeq([i \in 1..Max2(Len(a), Len(b)) |->
                        Limb(a, i) + Limb(b, i)]))

\* The borrow from limb i of the limb differences d: a limb below i is
\* negative and every limb between is zero.
BBorrowIn(d, i) ==
  \E j \in 1..(i - 1) : d[j] < 0 /\ \A m \in (j + 1)..(i - 1) : d[m] = 0

\* The limbs of the limb differences d with the borrows taken.
BSettle(d) ==
  BSeq([i \in 1..Len(d) |->
          (d[i] - (IF BBorrowIn(d, i) THEN 1 ELSE 0) + B) % B])

\* a - b for a >= b.
BSub(a, b) ==
  IF Len(b) = 0 THEN a
  ELSE BTrim(BSettle(BSeq([i \in 1..Len(a) |-> a[i] - Limb(b, i)])))

\* One pass of carries over the column sums s: every limb keeps its value
\* modulo B and receives the quotient of the limb below.
BPass(s) ==
  BSeq([i \in 1..(Len(s) + 1) |->
          (IF i <= Len(s) THEN s[i] % B ELSE 0)
            + (IF i > 1 THEN s[i - 1] \div B ELSE 0)])

\* The number of the column sums s (each below 2^31): after three passes
\* every limb is at most B, and the remaining carries are single.
BNorm(s) == BTrim(BResolve(BPass(BPass(BPass(s)))))

\* a * k for a TLC integer 0 <= k <= 200000.
BMulSmall(a, k) ==
  IF k = 0 \/ Len(a) = 0 THEN <<>>
  ELSE BNorm(BSeq([i \in 1..Len(a) |-> a[i] * k]))

RECURSIVE BConvAt(_, _, _, _, _)
BConvAt(a, b, k, i, hi) ==
  IF i > hi THEN 0 ELSE a[i] * b[k + 1 - i] + BConvAt(a, b, k, i + 1, hi)

\* a * b (at most 21 limbs each, so that a column sum stays below 2^31).
BMul(a, b) ==
  IF Len(a) = 0 \/ Len(b) = 0 THEN <<>>
  ELSE BNorm(BSeq([k \in 1..(Len(a) + Len(b) - 1) |->
                     BConvAt(a, b, k, Max2(1, k + 1 - Len(b)),
                             Min2(k, Len(a)))]))

\* a * B^j and a \div B^j.
BShl(a, j) == IF Len(a) = 0 THEN <<>> ELSE [i \in 1..j |-> 0] \o a
BShr(a, j) == IF Len(a) <= j THEN <<>> ELSE SubSeq(a, j + 1, Len(a))

\* <<limbs lo..hi of a \div k, remainder>> with remainder r from the limbs
\* above hi.
RECURSIVE BDivSmallRec(_, _, _, _, _)
BDivSmallRec(a, k, lo, hi, r) ==
  IF lo = hi
  THEN <<<<(r * B + a[lo]) \div k>>, (r * B + a[lo]) % k>>
  ELSE The({The({<<h[1] \o t[1], h[2]>>
                 : h \in {BDivSmallRec(a, k, lo, (lo + hi) \div 2, t[2])}})
            : t \in {BDivSmallRec(a, k, (lo + hi) \div 2 + 1, hi, r)}})

\* a \div k for a TLC integer 1 <= k <= 200000.
BDivSmall(a, k) ==
  IF Len(a) = 0 THEN <<>> ELSE BTrim(BDivSmallRec(a, k, 1, Len(a), 0)[1])

\* One step of the long division of r < d*B by d, d normalised (top limb >=
\* B/2): the quotient digit is estimated from the top limbs and corrected;
\* the result is <<digit, r - digit*d>>.
RECURSIVE BDigitFix(_, _, _, _)
BDigitFix(r, d, q, prod) ==
  IF BCmp(prod, r) = 1 THEN BDigitFix(r, d, q - 1, BSub(prod, d))
  ELSE <<q, BSub(r, prod)>>

BDigit(r, d) ==
  The({IF q = 0 THEN <<0, r>> ELSE BDigitFix(r, d, q, BMulSmall(d, q))
       : q \in {Min2(B - 1, (Limb(r, Len(d) + 1) * B + Limb(r, Len(d)))
                              \div d[Len(d)])}})

\* <<quotient limbs lo..hi, remainder>> with remainder r from the limbs of a
\* above hi.
RECURSIVE BLongDiv(_, _, _, _, _)
BLongDiv(a, d, lo, hi, r) ==
  IF lo = hi
  THEN The({<<<<s[1]>>, s[2]>> : s \in {BDigit(BTrim(<<a[lo]>> \o r), d)}})
  ELSE The({The({<<h[1] \o t[1], h[2]>>
                 : h \in {BLongDiv(a, d, lo, (lo + hi) \div 2, t[2])}})
            : t \in {BLongDiv(a, d, (lo + hi) \div 2 + 1, hi, r)}})

\* a \div d for d # 0.  The top Len(d)-1 limbs of a are below d: the
\* division starts with them as the remainder.
BDiv(a, d) ==
  IF BCmp(a, d) = -1 THEN <<>>
  ELSE IF Len(d) = 1 THEN BDivSmall(a, d[1])
  ELSE The({The({The({
       BTrim(BLongDiv(an, dn, 1, k, BTrim(SubSeq(an, k + 1, Len(an))))[1])
       : k \in {Len(an) - (Len(dn) - 1)}})
       : an \in {BMulSmall(a, f)}, dn \in {BMulSmall(d, f)}})
       : f \in {B \div (d[Len(d)] + 1)}})

\* Integer square root of a TLC integer (Newton, from above).
RECURSIVE ISqrtRec(_, _)
ISqrtRec(n, x) ==
  LET y == (x + n \div x) \div 2 IN IF y >= x THEN x ELSE ISqrtRec(n, y)

ISqrt(n) == IF n = 0 THEN 0 ELSE ISqrtRec(n, Max2(1, Min2(n, B)))

RECURSIVE BSqrtRec(_, _)
BSqrtRec(n, x) ==
  The({IF BCmp(y, x) # -1 THEN x ELSE BSqrtRec(n, y)
       : y \in {BDivSmall(BAdd(x, BDiv(n, x)), 2)}})

\* Floor of the square root; the first guess, from the top limbs, is above it.
BSqrt(n) ==
  IF Len(n) = 0 THEN <<>>
  ELSE The({The({
       BSqrtRec(n, BShl(BFromInt(ISqrt(top) + 1), (Len(n) - k) \div 2))
       : top \in {IF k = 2 THEN n[Len(n)] * B + n[Len(n) - 1]
                  ELSE n[Len(n)]}})
       : k \in {IF Len(n) % 2 = 0 THEN 2 ELSE 1}})

\* ------------------------------------------------------------------------
\* JavaScript numbers: <<sg, m>> is sg * m / U for sg in {1, -1} and m an
\* arbitrary-precision natural (zero is <<1, <<>>>>); NaN, +Infinity and
\* -Infinity are <<0, <<>>>>, <<2, <<>>>> and <<-2, <<>>>>.
\* ------------------------------------------------------------------------
NUnit == <<0, 0, 0, 0, 1>>            \* the number 1: U = B^4 = 10^16
FracLimbs == Len(NUnit) - 1

NaN  == <<0, <<>>>>
PInf == <<2, <<>>>>
NInf == <<-2, <<>>>>
Zero == <<1, <<>>>>

Mk(sg, m) == IF Len(m) = 0 THEN Zero ELSE <<sg, m>>

IsNaN(a)    == a[1] = 0
IsInf(a)    == a[1] = 2 \/ a[1] = -2
IsFinite(a) == a[1] = 1 \/ a[1] = -1
IsZero(a)   == a[1] = 1 /\ Len(a[2]) = 0
Sgn(a)      == IF a[1] < 0 THEN -1 ELSE 1

\* The number n, for a TLC integer n.
NInt(n) == IF n < 0 THEN Mk(-1, BShl(BFromInt(-n), FracLimbs))
           ELSE Mk(1, BShl(BFromInt(n), FracLimbs))

Pow10(r) == IF r = 0 THEN 1 ELSE IF r = 1 THEN 10 ELSE IF r = 2 THEN 100 ELSE 1000

\* The decimal literal m * 10^(-k), 0 <= k <= 16: NDec(1, 8) is 1e-8.
NDec(m, k) ==
  LET e == 4 * FracLimbs - k
      a == BShl(BMulSmall(BFromInt(IF m < 0 THEN -m ELSE m), Pow10(e % 4)), e \div 4)
  IN  Mk(IF m < 0 THEN -1 ELSE 1, a)

NNeg(a) == IF IsNaN(a) THEN NaN
           ELSE IF IsInf(a) THEN <<-a[1], <<>>>>
           ELSE Mk(-a[1], a[2])

NAbs(a) == IF IsNaN(a) THEN NaN
           ELSE IF IsInf(a) THEN PInf
           ELSE <<1, a[2]>>

\* -1, 0, 1 as a < b, a = b, a > b, for a and b not NaN.
NCmp(a, b) ==
  IF IsInf(a) \/ IsInf(b) \/ a[1] # b[1]
  THEN (IF a[1] < b[1] THEN -1 ELSE IF a[1] > b[1] THEN 1 ELSE 0)
  ELSE a[1] * BCmp(a[2], b[2])

\* The comparison operators of JavaScript: false when an operand is NaN.
NLt(a, b) == ~IsNaN(a) /\ ~IsNaN(b) /\ NCmp(a, b) = -1
NLe(a, b) == ~IsNaN(a) /\ ~IsNaN(b) /\ NCmp(a, b) # 1
NGt(a, b) == ~IsNaN(a) /\ ~IsNaN(b) /\ NCmp(a, b) = 1
NGe(a, b) == ~IsNaN(a) /\ ~IsNaN(b) /\ NCmp(a, b) # -1
NEq(a, b) == ~IsNaN(a) /\ ~IsNaN(b) /\ NCmp(a, b) = 0

\* Math.max and Math.min: NaN when an argument is NaN.
NMax(a, b) == IF IsNaN(a) \/ IsNaN(b) THEN NaN
              ELSE IF NCmp(a, b) = -1 THEN b ELSE a
NMin(a, b) == IF IsNaN(a) \/ IsNaN(b) THEN NaN
              ELSE IF NCmp(a, b) = 1 THEN b ELSE a

NAdd(a, b) ==
  IF IsNaN(a) \/ IsNaN(b) THEN NaN
  ELSE IF IsInf(a) THEN (IF IsInf(b) /\ a[1] # b[1] THEN NaN ELSE a)
  ELSE IF IsInf(b) THEN b
  ELSE IF a[1] = b[1] THEN Mk(a[1], BAdd(a[2], b[2]))
  ELSE The({IF c = 0 THEN Zero
            ELSE IF c = 1 THEN Mk(a[1], BSub(a[2], b[2]))
            ELSE Mk(b[1], BSub(b[2], a[2]))
            : c \in {BCmp(a[2], b[2])}})

NSub(a, b) == NAdd(a, NNeg(b))

NMul(a, b) ==
  IF IsNaN(a) \/ IsNaN(b) THEN NaN
  ELSE IF IsInf(a) \/ IsInf(b)
  THEN (IF IsZero(a) \/ IsZero(b) THEN NaN
        ELSE IF Sgn(a) = Sgn(b) THEN PInf ELSE NInf)
  ELSE Mk(a[1] * b[1], BShr(BMul(a[2], b[2]), FracLimbs))

NDiv(a, b) ==
  IF IsNaN(a) \/ IsNaN(b) THEN NaN
  ELSE IF IsInf(a)
  THEN (IF IsInf(b) THEN NaN ELSE IF Sgn(a) = Sgn(b) THEN PInf ELSE NInf)
  ELSE IF IsInf(b) THEN Zero
  ELSE IF IsZero(b)
  THEN (IF IsZero(a) THEN NaN ELSE IF Sgn(a) = 1 THEN PInf ELSE NInf)
  ELSE IF Len(b[2]) = FracLimbs + 1 /\ \A i \in 1..FracLimbs : b[2][i] = 0
  THEN Mk(a[1] * b[1], BDivSmall(a[2], b[2][FracLimbs + 1]))   \* b an integer < B
  ELSE Mk(a[1] * b[1], BDiv(BShl(a[2], FracLimbs), b[2]))

\* Math.sqrt.
NSqrt(a) ==
  IF IsNaN(a) \/ a[1] < 0 THEN NaN
  ELSE IF IsInf(a) THEN PInf
  ELSE Mk(1, BSqrt(BShl(a[2], FracLimbs)))


One == NInt(1)
Two == NInt(2)

\* ------------------------------------------------------------------------
\* Miettinen-Nurminen restricted MLE (two-group.js, calculateMNConstrainedMLE)
\* ------------------------------------------------------------------------
EPS8  == NDec(1, 8)                  \* 1e-8
\* Faulty variant of TOL10: a threshold of 1e-11.
TOL10Tight == NDec(1, 11)

TOL10 == NDec(1, 10)                 \* 1e-10
TOL12 == NDec(1, 12)                 \* 1e-12
P001 == NDec(1, 3)                   \* 0.001
P999 == NDec(999, 3)                 \* 0.999
\* Faulty variant of MNMaxIter: a loop bound off by one.
MNMaxIterOffByOne == 100 + 1

MNMaxIter == 100

\* scoreFunc: dL/dp1 at p1, with p2 = p1 + delta0.
scoreFunc(x1, n1, x2, n2, delta0, p1) ==
  The({The({NSub(NAdd(t1, t2), t3)
            : t1 \in {NSub(NDiv(x1, p1), NDiv(NSub(n1, x1), NSub(One, p1)))},
              t2 \in {NDiv(x2, p2)},
              t3 \in {NDiv(NSub(n2, x2), NSub(One, p2))}})
       : p2 \in {NAdd(p1, delta0)}})

\* Faulty variant of MNReturn: p2 clipped into [0.001, 0.999] as the
\* Farrington-Manning solver does.
MNReturnClipped(p1, delta0, path, iters) ==
  [p1_mle |-> p1, p2_mle |-> NMax(P001, NMin(P999, NAdd(p1, delta0))),
   path |-> path, iters |-> iters]

\* return { p1_mle: p1, p2_mle: p1 + delta0 } (lines 133, 136, 148, 159).
MNReturn(p1, delta0, path, iters) ==
  [p1_mle |-> p1, p2_mle |-> NAdd(p1, delta0), path |-> path, iters |-> iters]

\* The state of a loop that has not returned carries out = None.
None == <<>>

\* Faulty variant of MNBisectStep: the ends of the bracket exchanged in the
\* update.
MNBisectStepReversed(x1, n1, x2, n2, delta0, st) ==
  IF st.i >= MNMaxIter
  THEN [st EXCEPT !.out = MNReturn(NDiv(NAdd(st.lo, st.hi), Two), delta0,
                                   "cap", st.i)]
  ELSE The({The({
           IF NLt(NAbs(score_mid), TOL12)
              \/ NLt(NAbs(NSub(st.hi, st.lo)), TOL12)
           THEN [st EXCEPT !.out = MNReturn(mid, delta0, "bisect", st.i + 1)]
           ELSE IF NGt(score_mid, Zero)
           THEN [st EXCEPT !.hi = mid, !.i = st.i + 1]
           ELSE [st EXCEPT !.lo = mid, !.i = st.i + 1]
           : score_mid \in {scoreFunc(x1, n1, x2, n2, delta0, mid)}})
           : mid \in {NDiv(NAdd(st.lo, st.hi), Two)}})

\* One pass of the bisection loop (lines 143-156) from bracket [st.lo, st.hi]
\* at iteration st.i (0-based), or the return after the loop (lines 158-159)
\* once st.i has reached the cap.  iters counts the loop bodies executed.
MNBisectStep(x1, n1, x2, n2, delta0, st) ==
  IF st.i >= MNMaxIter
  THEN [st EXCEPT !.out = MNReturn(NDiv(NAdd(st.lo, st.hi), Two), delta0,
                                   "cap", st.i)]
  ELSE The({The({
           IF NLt(NAbs(score_mid), TOL12)
              \/ NLt(NAbs(NSub(st.hi, st.lo)), TOL12)
           THEN [st EXCEPT !.out = MNReturn(mid, delta0, "bisect", st.i + 1)]
           ELSE IF NGt(score_mid, Zero)
           THEN [st EXCEPT !.lo = mid, !.i = st.i + 1]
           ELSE [st EXCEPT !.hi = mid, !.i = st.i + 1]
           : score_mid \in {scoreFunc(x1, n1, x2, n2, delta0, mid)}})
           : mid \in {NDiv(NAdd(st.lo, st.hi), Two)}})

\* Up to 2^k passes, stopping at the return.
RECURSIVE MNBisectRun(_, _, _, _, _, _, _)
MNBisectRun(x1, n1, x2, n2, delta0, st, k) ==
  CASE st.out # None -> st
    [] k = 0 -> MNBisectStep(x1, n1, x2, n2, delta0, st)
    [] OTHER -> MNBisectRun(x1, n1, x2, n2, delta0,
                            MNBisectRun(x1, n1, x2, n2, delta0, st, k - 1),
                            k - 1)

MNBisect(x1, n1, x2, n2, delta0, lo, hi) ==
  MNBisectRun(x1, n1, x2, n2, delta0,
              [lo |-> lo, hi |-> hi, i |-> 0, out |-> None], 7).out

\* The range of p1 that keeps p1 and p1 + delta0 inside (0, 1) (lines 110-111).
MNP1Min(delta0) == NMax(EPS8, NAdd(NNeg(delta0), EPS8))
MNP1Max(delta0) == NMin(NSub(One, EPS8), NSub(NSub(One, delta0), EPS8))

\* Faulty variant of MNBoundary: the two ends exchanged.
MNBoundarySwapped(score_lo, score_hi) ==
  IF NLe(score_lo, Zero) THEN "at_max"
  ELSE IF NGe(score_hi, Zero) THEN "at_min"
  ELSE "bisect"

\* Lines 132-137: the score does not change sign, so the MLE is at an end.
MNBoundary(score_lo, score_hi) ==
  IF NLe(score_lo, Zero) THEN "at_min"
  ELSE IF NGe(score_hi, Zero) THEN "at_max"
  ELSE "bisect"

\* Lines 113-118: an empty range of p1 gives the clipped centre of the range.
MNInvalid(delta0, p1_min, p1_max) ==
  The({[p1_mle |-> p1_est,
        p2_mle |-> NMax(EPS8, NMin(NSub(One, EPS8), NAdd(p1_est, delta0))),
        path |-> "invalid", iters |-> 0]
       : p1_est \in {NMax(EPS8, NMin(NSub(One, EPS8),
                                     NDiv(NAdd(p1_min, p1_max), Two)))}})

\* Lines 128-160: the scores at the two ends, then an end or the bisection.
MNSearch(x1, n1, x2, n2, delta0, p1_min, p1_max) ==
  The({IF side = "at_min" THEN MNReturn(p1_min, delta0, "at_min", 0)
       ELSE IF side = "at_max" THEN MNReturn(p1_max, delta0, "at_max", 0)
       ELSE MNBisect(x1, n1, x2, n2, delta0, p1_min, p1_max)
       : side \in {MNBoundary(scoreFunc(x1, n1, x2, n2, delta0, p1_min),
                              scoreFunc(x1, n1, x2, n2, delta0, p1_max))}})

calculateMNConstrainedMLE(x1, n1, x2, n2, delta0) ==
  IF NLt(NAbs(delta0), TOL10)
  THEN The({[p1_mle |-> p_pooled, p2_mle |-> p_pooled,
             path |-> "pooled", iters |-> 0]
            : p_pooled \in {NDiv(NAdd(x1, x2), NAdd(n1, n2))}})
  ELSE The({IF NGe(p1_min, p1_max)
            THEN MNInvalid(delta0, p1_min, p1_max)
            ELSE MNSearch(x1, n1, x2, n2, delta0, p1_min, p1_max)
            : p1_min \in {MNP1Min(delta0)}, p1_max \in {MNP1Max(delta0)}})

\* ------------------------------------------------------------------------
\* Farrington-Manning restricted MLE (two-group.js, calculateFMRMLE)
\* ------------------------------------------------------------------------
FMMaxIter == 20

\* Line 68-73: p2 is p1 + delta0 clipped into [0.001, 0.999].
FMReturn(p1_est, delta0, path, iters) ==
  [p1_rmle |-> p1_est,
   p2_rmle |-> NMax(P001, NMin(P999, NAdd(p1_est, delta0))),
   path |-> path, iters |-> iters]

FMScore(p1_obs, p2_obs, n1, n2, p1_est, p2_est) ==
  NAdd(NMul(n1, NSub(NDiv(p1_obs, p1_est),
                     NDiv(NSub(One, p1_obs), NSub(One, p1_est)))),
       NMul(n2, NSub(NDiv(p2_obs, p2_est),
                     NDiv(NSub(One, p2_obs), NSub(One, p2_est)))))

FMInfo(p1_obs, p2_obs, n1, n2, p1_est, p2_est) ==
  NAdd(NMul(n1, NAdd(NDiv(p1_obs, NMul(p1_est, p1_est)),
                     NDiv(NSub(One, p1_obs),
                          NMul(NSub(One, p1_est), NSub(One, p1_est))))),
       NMul(n2, NAdd(NDiv(p2_obs, NMul(p2_est, p2_est)),
                     NDiv(NSub(One, p2_obs),
                          NMul(NSub(One, p2_est), NSub(One, p2_est))))))

\* One pass of the Newton-Raphson loop (lines 37-66) from estimate st.p1_est
\* at iteration st.iter (0-based), or the return after the loop (lines 68-73)
\* once st.iter has reached the cap.  iters counts the loop bodies entered.
FMNewtonStep(p1_obs, p2_obs, n1, n2, delta0, p_pooled, st) ==
  IF st.iter >= FMMaxIter
  THEN [st EXCEPT !.out = FMReturn(st.p1_est, delta0, "cap", st.iter)]
  ELSE
  The({The({
      IF NLe(p2_est, Zero) \/ NGe(p2_est, One)
         \/ NLe(p1_est, Zero) \/ NGe(p1_est, One)
      THEN [st EXCEPT !.out =
              FMReturn(NMax(P001, NMin(NSub(P999, delta0),
                                       NSub(p_pooled, NDiv(delta0, Two)))),
                       delta0, "fallback", st.iter + 1)]
      ELSE
      The({The({
          IF NLt(NAbs(delta_p), EPS8)
          THEN [st EXCEPT !.out =
                  FMReturn(p1_new, delta0, "converged", st.iter + 1)]
          ELSE [st EXCEPT
                  !.p1_est = NMax(P001, NMin(NSub(P999, NMax(Zero, delta0)),
                                             p1_new)),
                  !.iter = st.iter + 1]
          : p1_new \in {NAdd(p1_est, delta_p)}})
          : delta_p \in {NDiv(FMScore(p1_obs, p2_obs, n1, n2, p1_est, p2_est),
                              FMInfo(p1_obs, p2_obs, n1, n2, p1_est, p2_est))}})
      : p2_est \in {NAdd(p1_est, delta0)}})
      : p1_est \in {st.p1_est}})

RECURSIVE FMNewtonRun(_, _, _, _, _, _, _, _)
FMNewtonRun(p1_obs, p2_obs, n1, n2, delta0, p_pooled, st, k) ==
  CASE st.out # None -> st
    [] k = 0 -> FMNewtonStep(p1_obs, p2_obs, n1, n2, delta0, p_pooled, st)
    [] OTHER -> FMNewtonRun(p1_obs, p2_obs, n1, n2, delta0, p_pooled,
                            FMNewtonRun(p1_obs, p2_obs, n1, n2, delta0,
                                        p_pooled, st, k - 1), k - 1)

FMNewton(p1_obs, p2_obs, n1, n2, delta0, p_pooled, p1_est) ==
  FMNewtonRun(p1_obs, p2_obs, n1, n2, delta0, p_pooled,
              [p1_est |-> p1_est, iter |-> 0, out |-> None], 5).out

calculateFMRMLE(p1_obs, p2_obs, n1, n2, delta0) ==
  The({FMNewton(p1_obs, p2_obs, n1, n2, delta0, p_pooled,
                NMax(P001, NMin(P999, NSub(p_pooled, NDiv(delta0, Two)))))
       : p_pooled \in {NDiv(NAdd(NMul(n1, p1_obs), NMul(n2, p2_obs)),
                            NAdd(n1, n2))}})


\* ------------------------------------------------------------------------
\* Math.exp and the normal CDF (normal-distribution.js, normalCDF)
\* ------------------------------------------------------------------------
\* A decimal literal with 16 fractional digits in groups of four:
\* NFix(-1, 1, 8212, 5597, 8000, 0) is -1.821255978.
NFix(sg, ip, f1, f2, f3, f4) == Mk(sg, BTrim(<<f4, f3, f2, f1>> \o BFromInt(ip)))

RECURSIVE NExpTaylor(_, _, _, _)
NExpTaylor(y, term, n, acc) ==
  IF IsZero(term) THEN acc
  ELSE The({The({NExpTaylor(y, t2, n + 1, a2) : a2 \in {NAdd(acc, t2)}})
            : t2 \in {NDiv(NMul(term, y), NInt(n))}})

RECURSIVE NSquareTimes(_, _)
NSquareTimes(v, k) ==
  IF k = 0 \/ IsZero(v) THEN v ELSE NSquareTimes(NMul(v, v), k - 1)

\* exp(x) for finite x <= 0: halve x until it is above -1/8, sum the series,
\* square back.
RECURSIVE NExpNeg(_, _)
NExpNeg(x, k) ==
  IF NLt(x, NDec(-125, 3)) THEN NExpNeg(NDiv(x, Two), k + 1)
  ELSE NSquareTimes(NExpTaylor(x, One, 1, One), k)

\* Math.exp.
NExp(x) ==
  IF IsNaN(x) THEN NaN
  ELSE IF x = PInf THEN PInf
  ELSE IF x = NInf THEN Zero
  ELSE IF Sgn(x) = -1 THEN NExpNeg(x, 0)
  ELSE NDiv(One, NExpNeg(NNeg(x), 0))

PI == NFix(1, 3, 1415, 9265, 3589, 7930)     \* Math.PI

\* (...((acc * x + cs[i]) * x + cs[i + 1]) * x ... ) + cs[Len(cs)]: the nested
\* products of a polynomial, innermost first.
RECURSIVE Horner(_, _, _, _)
Horner(cs, x, i, acc) ==
  IF i > Len(cs) THEN acc
  ELSE The({Horner(cs, x, i + 1, a) : a \in {NAdd(NMul(acc, x), cs[i])}})

normalCDF(x) ==
  LET b0 == NFix(1, 0, 2316, 4190, 0, 0)
      b1 == NFix(1, 0, 3193, 8153, 0, 0)
      b2 == NFix(-1, 0, 3565, 6378, 2000, 0)
      b3 == NFix(1, 1, 7814, 7793, 7000, 0)
      b4 == NFix(-1, 1, 8212, 5597, 8000, 0)
      b5 == NFix(1, 1, 3302, 7442, 9000, 0)
  IN  The({The({The({The({IF NLt(x, Zero) THEN NSub(One, p) ELSE p
      : p \in {NSub(One,
                    NMul(NMul(NDiv(One, NSqrt(NMul(Two, PI))), e), poly))}})
      : poly \in {NMul(t, Horner(<<b4, b3, b2, b1>>, t, 1, b5))},
        e \in {NExp(NMul(NMul(NDec(-5, 1), z), z))}})
      : t \in {NDiv(One, NAdd(One, NMul(b0, z)))}})
      : z \in {IF NLt(x, Zero) THEN NNeg(x) ELSE x}})

\* ------------------------------------------------------------------------
\* Math.log and the normal quantile (normal-distribution.js, normalInverse)
\* ------------------------------------------------------------------------
Half == NDec(5, 1)
LN2 == NFix(1, 0, 6931, 4718, 559, 9453)         \* Math.LN2

\* The sum of pow / n + pow * y2 / (n + 2) + ... down to a zero term.
RECURSIVE NLnSeries(_, _, _, _)
NLnSeries(y2, pow, n, acc) ==
  IF IsZero(pow) THEN acc
  ELSE The({IF IsNaN(a2) THEN NaN
            ELSE NLnSeries(y2, NMul(pow, y2), n + 2, a2)
            : a2 \in {NAdd(acc, NDiv(pow, NInt(n)))}})

\* ln(x) for finite x > 0, with x = m * 2^(-k): doubles or halves x into
\* [1/2, 2), where ln(m) = 2 * atanh(y) with y = (m - 1) / (m + 1).
RECURSIVE NLnReduce(_, _)
NLnReduce(x, k) ==
  IF NLt(x, Half) THEN NLnReduce(NMul(x, Two), k + 1)
  ELSE IF NGe(x, Two) THEN NLnReduce(NDiv(x, Two), k - 1)
  ELSE The({The({NSub(NMul(Two, sr), NMul(NInt(k), LN2))
                 : sr \in {NLnSeries(NMul(y, y), y, 1, Zero)}})
            : y \in {NDiv(NSub(x, One), NAdd(x, One))}})

\* Math.log.
NLn(x) ==
  IF IsNaN(x) \/ Sgn(x) < 0 THEN NaN
  ELSE IF IsZero(x) THEN NInf
  ELSE IF x = PInf THEN PInf
  ELSE NLnReduce(x, 0)

\* Lines 138-140: the central region, q = p - 0.5 and r = q * q.
AcklamCentral(q, r) ==
  LET a1 == NFix(-1, 39, 6968, 3028, 6653, 7600)
      a2 == NFix(1, 220, 9460, 9842, 4520, 5000)
      a3 == NFix(-1, 275, 9285, 1044, 6968, 7000)
      a4 == NFix(1, 138, 3577, 5186, 7269, 0)
      a5 == NFix(-1, 30, 6647, 9806, 6147, 1600)
      a6 == NFix(1, 2, 5066, 2827, 7459, 2390)
      b1 == NFix(-1, 54, 4760, 9879, 8224, 600)
      b2 == NFix(1, 161, 5858, 3685, 8040, 9000)
      b3 == NFix(-1, 155, 6989, 7985, 9886, 6000)
      b4 == NFix(1, 66, 8013, 1188, 7719, 7200)
      b5 == NFix(-1, 13, 2806, 8155, 2885, 7200)
  IN  The({NDiv(num, den)
           : num \in {NMul(Horner(<<a2, a3, a4, a5, a6>>, r, 1, a1), q)},
             den \in {Horner(<<b2, b3, b4, b5, One>>, r, 1, b1)}})

\* Lines 131-133: the rational function of q = sqrt(-2 ln p) of the tails.
AcklamTail(q) ==
  LET c1 == NFix(-1, 0, 77, 8489, 4002, 4302)
      c2 == NFix(-1, 0, 3223, 9645, 8041, 1365)
      c3 == NFix(-1, 2, 4007, 5827, 7161, 8380)
      c4 == NFix(-1, 2, 5497, 3253, 9343, 7340)
      c5 == NFix(1, 4, 3746, 6414, 1464, 9680)
      c6 == NFix(1, 2, 9381, 6398, 2698, 7830)
      d1 == NFix(1, 0, 77, 8469, 5709, 414)
      d2 == NFix(1, 0, 3224, 6712, 9070, 398)
      d3 == NFix(1, 2, 4451, 3413, 7142, 9960)
      d4 == NFix(1, 3, 7544, 866, 1907, 4160)
  IN  The({NDiv(num, den)
           : num \in {Horner(<<c2, c3, c4, c5, c6>>, q, 1, c1)},
             den \in {Horner(<<d2, d3, d4, One>>, q, 1, d1)}})

\* Lines 97-147: Acklam's algorithm for 0 < p < 1.
Acklam(p) ==
  LET x_low  == NDec(2425, 5)
      x_high == NSub(One, x_low)
  IN  IF NLt(p, x_low)
      THEN The({AcklamTail(q) : q \in {NSqrt(NMul(NInt(-2), NLn(p)))}})
      ELSE IF NLe(p, x_high)
      THEN The({AcklamCentral(q, NMul(q, q)) : q \in {NSub(p, Half)}})
      ELSE The({NNeg(AcklamTail(q))
                : q \in {NSqrt(NMul(NInt(-2), NLn(NSub(One, p))))}})

\* ------------------------------------------------------------------------
\* LRUCache (lru-cache.js) and the cached quantile
\* ------------------------------------------------------------------------
\* A cache is its list of nodes between the two sentinels, most recently used
\* first, with the hit and miss counters; size is the length of the list.
CacheCapacity == 25

EmptyCache == [items |-> <<>>, hits |-> 0, misses |-> 0]

\* this.cache.get(key): the position of the node of this key, 0 for none.
LRUNode(items, key) ==
  IF \E i \in 1..Len(items) : items[i].key = key
  THEN CHOOSE i \in 1..Len(items) : items[i].key = key
  ELSE 0

_removeNode(items, i) == SubSeq(items, 1, i - 1) \o SubSeq(items, i + 1, Len(items))

_addToHead(items, node) == <<node>> \o items

_moveToHead(items, i) == _addToHead(_removeNode(items, i), items[i])

_removeTail(items) == _removeNode(items, Len(items))

\* Faulty variant of LRUGet: a hit leaves the node where it is.
LRUGetNoTouch(c, key) ==
  LET i == LRUNode(c.items, key)
  IN  IF i = 0
      THEN [value |-> None, cache |-> [c EXCEPT !.misses = @ + 1]]
      ELSE [value |-> c.items[i].value, cache |-> [c EXCEPT !.hits = @ + 1]]

\* get(key): the value (None for undefined) and the cache after the call.
LRUGet(c, key) ==
  LET i == LRUNode(c.items, key)
  IN  IF i = 0
      THEN [value |-> None, cache |-> [c EXCEPT !.misses = @ + 1]]
      ELSE [value |-> c.items[i].value,
            cache |-> [c EXCEPT !.items = _moveToHead(@, i), !.hits = @ + 1]]

\* put(key, value): an existing node gets the value and moves to the head; a
\* new node is added at the head and the tail is dropped above the capacity.
LRUPut(c, key, value) ==
  LET i     == LRUNode(c.items, key)
      node  == [key |-> key, value |-> value]
      added == _addToHead(c.items, node)
  IN  IF i # 0
      THEN [c EXCEPT !.items = _addToHead(_removeNode(@, i), node)]
      ELSE [c EXCEPT !.items = IF Len(added) > CacheCapacity
                               THEN _removeTail(added) ELSE added]

LRUClear(c) == EmptyCache

\* p.toFixed(10): p rounded to 10 decimals, halves away from zero, as the
\* count of units of 10^-10 with the sign.
ToFixed10(p) ==
  IF ~IsFinite(p) THEN p
  ELSE <<Sgn(p), BDiv(BAdd(p[2], BFromInt(500 * 1000)), BFromInt(1000 * 1000))>>

\* Lines 150-152: store the computed value and return it.
normalInversePut(c, key, result) ==
  [value |-> result, cache |-> LRUPut(c, key, result)]

\* normalInverse(p) on the cache c: the returned value and the cache after.
normalInverse(c, p) ==
  IF NLe(p, Zero) THEN [value |-> NInf, cache |-> c]
  ELSE IF NGe(p, One) THEN [value |-> PInf, cache |-> c]
  ELSE The({The({IF got.value # None THEN got
                 ELSE The({normalInversePut(got.cache, key, result)
                           : result \in {Acklam(p)}})
                 : got \in {LRUGet(c, key)}})
            : key \in {ToFixed10(p)}})

clearNormalInverseCache(c) == LRUClear(c)

\* ------------------------------------------------------------------------
\* Miettinen-Nurminen confidence bounds (two-group.js, findMNCIBound)
\* ------------------------------------------------------------------------
CIMaxIter == 100
CIHalfWidth == NDec(5, 1)            \* 0.5
CIClip == NDec(9999, 4)              \* 0.9999

\* Faulty variant of MNVariance: the plug-in sum without the correction.
MNVarianceUncorrected(mle, n1, n2) ==
  NAdd(NDiv(NMul(mle.p1_mle, NSub(One, mle.p1_mle)), n1),
       NDiv(NMul(mle.p2_mle, NSub(One, mle.p2_mle)), n2))

\* V = N/(N-1) * (p1(1-p1)/n1 + p2(1-p2)/n2) (lines 184-187, 220-227).
MNVariance(mle, n1, n2) ==
  The({NMul(NDiv(N, NSub(N, One)),
            NAdd(NDiv(NMul(mle.p1_mle, NSub(One, mle.p1_mle)), n1),
                 NDiv(NMul(mle.p2_mle, NSub(One, mle.p2_mle)), n2)))
       : N \in {NAdd(n1, n2)}})

\* Lines 226-229 of calcZ: the z statistic from the restricted MLE.
ZOfMLE(mle, n1, n2, diff, delta0) ==
  The({NDiv(NSub(diff, delta0), se_mn)
       : se_mn \in {NSqrt(NMax(MNVariance(mle, n1, n2), TOL12))}})

\* calcZ: the z statistic at hypothesized difference delta0 (lines 224-230).
calcZ(x1, n1, x2, n2, diff, delta0) ==
  The({ZOfMLE(mle, n1, n2, diff, delta0)
       : mle \in {calculateMNConstrainedMLE(x1, n1, x2, n2, delta0)}})

\* The bracket the search starts from (lines 235-236, 250-251).
CIInit(diff, bound) ==
  IF bound = "lower"
  THEN [lo |-> NMax(NNeg(CIClip), NSub(diff, CIHalfWidth)), hi |-> diff]
  ELSE [lo |-> diff, hi |-> NMin(CIClip, NAdd(diff, CIHalfWidth))]

\* const mid = (lo + hi) / 2
CIMid(lo, hi) == NDiv(NAdd(lo, hi), Two)

\* The bracket after the comparison of z with the critical value
\* (lines 241-245, 256-260).
CIUpdate(z, z_alpha, bound, lo, hi, mid) ==
  IF bound = "lower"
  THEN (IF NGt(z, z_alpha) THEN [lo |-> mid, hi |-> hi]
        ELSE [lo |-> lo, hi |-> mid])
  ELSE (IF NLt(z, NNeg(z_alpha)) THEN [lo |-> lo, hi |-> mid]
        ELSE [lo |-> mid, hi |-> hi])

\* One loop body without its break test (lines 239-245, 254-260).
CIStep(x1, n1, x2, n2, diff, z_alpha, bound, lo, hi) ==
  The({The({CIUpdate(z, z_alpha, bound, lo, hi, mid)
            : z \in {calcZ(x1, n1, x2, n2, diff, mid)}})
       : mid \in {CIMid(lo, hi)}})

\* if (Math.abs(hi - lo) < 1e-8) break
\* Faulty variant of CIBreak: the tolerance 1e-9.
CIBreakTight(lo, hi) == NLt(NAbs(NSub(hi, lo)), NDec(1, 9))

CIBreak(lo, hi) == NLt(NAbs(NSub(hi, lo)), EPS8)

\* return lo (lower) or hi (upper).
CIValue(bound, lo, hi) == IF bound = "lower" THEN lo ELSE hi

\* The end of a loop pass: the new bracket b and the break test (line 246).
CISearchAfter(st, bound, b) ==
  IF CIBreak(b.lo, b.hi)
  THEN [st EXCEPT !.out = [value |-> CIValue(bound, b.lo, b.hi),
                           iters |-> st.i + 1]]
  ELSE [st EXCEPT !.lo = b.lo, !.hi = b.hi, !.i = st.i + 1]

\* One pass of the search loop from bracket [st.lo, st.hi] at iteration st.i,
\* or the return once st.i has reached the cap.
CISearchStep(x1, n1, x2, n2, diff, z_alpha, bound, st) ==
  IF st.i >= CIMaxIter
  THEN [st EXCEPT !.out = [value |-> CIValue(bound, st.lo, st.hi),
                           iters |-> st.i]]
  ELSE The({CISearchAfter(st, bound, b)
            : b \in {CIStep(x1, n1, x2, n2, diff, z_alpha, bound,
                            st.lo, st.hi)}})

RECURSIVE CISearchRun(_, _, _, _, _, _, _, _, _)
CISearchRun(x1, n1, x2, n2, diff, z_alpha, bound, st, k) ==
  CASE st.out # None -> st
    [] k = 0 -> CISearchStep(x1, n1, x2, n2, diff, z_alpha, bound, st)
    [] OTHER -> CISearchRun(x1, n1, x2, n2, diff, z_alpha, bound,
                            CISearchRun(x1, n1, x2, n2, diff, z_alpha, bound,
                                        st, k - 1), k - 1)

CISearch(x1, n1, x2, n2, diff, z_alpha, bound, lo, hi) ==
  CISearchRun(x1, n1, x2, n2, diff, z_alpha, bound,
              [lo |-> lo, hi |-> hi, i |-> 0, out |-> None], 7).out

findMNCIBound(x1, n1, x2, n2, diff, z_alpha, bound) ==
  The({CISearch(x1, n1, x2, n2, diff, z_alpha, bound, b0.lo, b0.hi).value
       : b0 \in {CIInit(diff, bound)}})

\* ------------------------------------------------------------------------
\* Score statistics (two-group.js, calculateMNResult and calculateFMResult)
\* ------------------------------------------------------------------------
\* const z_score = se > 0 ? (diff - delta0) / se : 0 (lines 191, 289).
ZScore(diff, delta0, se) ==
  IF NGt(se, Zero) THEN NDiv(NSub(diff, delta0), se) ELSE Zero

\* const diff = p2_obs - p1_obs (lines 174-176).
ObsDiff(x1, n1, x2, n2) == NSub(NDiv(x2, n2), NDiv(x1, n1))

\* Lines 184-192: the variance, standard error, statistic and p-value from
\* the restricted MLE.
MNStatOf(diff, delta0, mle, n1, n2) ==
  The({The({The({
      [diff |-> diff, mle |-> mle, variance |-> var_mn, se |-> se_mn,
       z_score |-> z_score, p_value |-> NSub(One, normalCDF(z_score))]
      : z_score \in {ZScore(diff, delta0, se_mn)}})
      : se_mn \in {NSqrt(var_mn)}})
      : var_mn \in {MNVariance(mle, n1, n2)}})

\* Lines 174-192.
MNStat(x1, n1, x2, n2, delta0) ==
  The({MNStatOf(diff, delta0, mle, n1, n2)
       : mle \in {calculateMNConstrainedMLE(x1, n1, x2, n2, delta0)},
         diff \in {ObsDiff(x1, n1, x2, n2)}})

\* Lines 199-205.
MNResultOf(st, ci_lower, ci_upper) ==
  [ci_lower |-> ci_lower, ci_upper |-> ci_upper,
   z_score |-> st.z_score, p_value |-> st.p_value, se |-> st.se]

calculateMNResult(x1, n1, x2, n2, delta0, z_alpha) ==
  The({The({MNResultOf(st, ci_lower, ci_upper)
            : ci_lower \in {findMNCIBound(x1, n1, x2, n2, st.diff,
                                          z_alpha, "lower")},
              ci_upper \in {findMNCIBound(x1, n1, x2, n2, st.diff,
                                          z_alpha, "upper")}})
       : st \in {MNStat(x1, n1, x2, n2, delta0)}})

\* Lines 284-290: the variance under H0, standard error, statistic and
\* p-value from the restricted MLE.
FMStatOf(diff, delta0, rmle, n1, n2) ==
  The({The({The({
      [diff |-> diff, rmle |-> rmle, variance |-> NAdd(var1, var2),
       se |-> se_h0, z_score |-> z_score,
       p_value |-> NSub(One, normalCDF(z_score))]
      : z_score \in {ZScore(diff, delta0, se_h0)}})
      : se_h0 \in {NSqrt(NAdd(var1, var2))}})
      : var1 \in {NDiv(NMul(rmle.p1_rmle, NSub(One, rmle.p1_rmle)), n1)},
        var2 \in {NDiv(NMul(rmle.p2_rmle, NSub(One, rmle.p2_rmle)), n2)}})

\* Lines 278-290.
FMStat(p1, p2, n1, n2, delta0) ==
  The({FMStatOf(diff, delta0, rmle, n1, n2)
       : rmle \in {calculateFMRMLE(p1, p2, n1, n2, delta0)},
         diff \in {NSub(p2, p1)}})

\* Lines 293-306: the Wald interval from the observed rates, and the return.
FMResultOf(st, p1, p2, n1, n2, z_alpha) ==
  The({[ci_lower |-> NSub(st.diff, NMul(z_alpha, se_obs)),
        ci_upper |-> NAdd(st.diff, NMul(z_alpha, se_obs)),
        z_score |-> st.z_score, p_value |-> st.p_value, se |-> st.se]
       : se_obs \in {NSqrt(NAdd(NDiv(NMul(p1, NSub(One, p1)), n1),
                                NDiv(NMul(p2, NSub(One, p2)), n2)))}})

calculateFMResult(p1, p2, n1, n2, delta0, z_alpha) ==
  The({FMResultOf(st, p1, p2, n1, n2, z_alpha)
       : st \in {FMStat(p1, p2, n1, n2, delta0)}})

\* ------------------------------------------------------------------------
\* Equivalence trial (safe-math.js; two-group.js, calculateEqResult)
\* ------------------------------------------------------------------------
\* The values null and undefined, beside the numbers.
Null == <<3, <<>>>>
Undefined == <<4, <<>>>>

\* safeNumber: the value when it is a finite number; else Number(value) when
\* that is finite (Number(null) is 0, Number(undefined) is NaN); else the
\* fallback.
safeNumber(value, fallback) ==
  IF IsFinite(value) THEN value
  ELSE IF value = Null THEN Zero
  ELSE fallback

safeDivide(numerator, denominator, fallback) ==
  The({IF NLt(NAbs(b), TOL10) THEN fallback
       ELSE The({IF IsFinite(result) THEN result ELSE fallback
                 : result \in {NDiv(a, b)}})
       : a \in {safeNumber(numerator, Zero)},
         b \in {safeNumber(denominator, Zero)}})

\* The object of the early returns (lines 738-749, 759-770, 800-811).
EqDegenerate ==
  [p1 |-> Zero, p2 |-> Zero, diff |-> Zero, ci_lower |-> Zero,
   ci_upper |-> Zero, p_value |-> One, testStatistic |-> Zero,
   isNonInferior |-> FALSE, testStatisticLabel |-> "none",
   z1 |-> None, z2 |-> None]

\* Lines 719-726: the rate of s successes out of n.
EqRate(s, n, useContinuity) ==
  IF useContinuity THEN safeDivide(NAdd(s, Half), NAdd(n, One), Zero)
  ELSE safeDivide(s, n, Zero)

\* Lines 796-798: variance1, variance2 and se of the default branch.
EqWaldSE(p1, p2, n1, n2) ==
  NSqrt(NAdd(safeDivide(NMul(p1, NSub(One, p1)), n1, Zero),
             safeDivide(NMul(p2, NSub(One, p2)), n2, Zero)))

\* z.toFixed(2) throws a TypeError when z is not a number.
toFixed(z) == IF z = Null \/ z = Undefined THEN "TypeError" ELSE "string"

\* Wilson score interval (power-calculation.js, calculateWilsonCI).
\* Lines 1562-1580, for n # 0: p = x / n, z2 = z * z, denom = 1 + z2 / n.
WilsonBounds(p, n, z, z2, denom) ==
  The({The({The({
      [lower |-> NMax(Zero, NSub(center, safeMargin)),
       upper |-> NMin(One, NAdd(center, safeMargin))]
      : safeMargin \in {NMin(margin, One)}})
      : margin \in {safeDivide(NMul(z, NSqrt(NMax(Zero, sqrtTerm))), denom,
                               Zero)}})
      : center \in {safeDivide(NAdd(p, NDiv(z2, NMul(Two, n))), denom, p)},
        sqrtTerm \in {NAdd(NDiv(NMul(p, NSub(One, p)), n),
                           NDiv(z2, NMul(NMul(NInt(4), n), n)))}})

calculateWilsonCI(x, n, z) ==
  IF IsZero(safeNumber(n, One)) THEN [lower |-> Zero, upper |-> Zero]
  ELSE The({WilsonBounds(p, safeNumber(n, One), z, z2, denom)
            : p \in {safeDivide(safeNumber(x, Zero), safeNumber(n, One),
                                Zero)},
              z2 \in {NMul(z, z)},
              denom \in {NAdd(One, safeDivide(NMul(z, z), safeNumber(n, One),
                                              Zero))}})

\* Newcombe's interval of p2 - p1 from the two Wilson intervals, and the
\* unpooled standard error (lines 366-384, 570-586, 774-787).
Newcombe(w1, w2, p1, p2, n1, n2) ==
  [ci_lower |-> NSub(NSub(p2, p1),
                     NSqrt(NAdd(NMul(NSub(p2, w2.lower), NSub(p2, w2.lower)),
                                NMul(NSub(w1.upper, p1), NSub(w1.upper, p1))))),
   ci_upper |-> NAdd(NSub(p2, p1),
                     NSqrt(NAdd(NMul(NSub(w2.upper, p2), NSub(w2.upper, p2)),
                                NMul(NSub(p1, w1.lower), NSub(p1, w1.lower))))),
   se |-> EqWaldSE(p1, p2, n1, n2)]

\* Lines 800-814: no interval for a non-finite or zero se, else
\* diff -+ z_alpha * se.
EqWaldInterval(diff, z_alpha, se) ==
  IF ~IsFinite(se) \/ IsZero(se) THEN None
  ELSE [ci_lower |-> NSub(diff, NMul(z_alpha, se)),
        ci_upper |-> NAdd(diff, NMul(z_alpha, se)), se |-> se]

\* Lines 791-794: the interval and se of the result at delta0 = 0.
EqMNInterval(mnResult) ==
  [ci_lower |-> mnResult.ci_lower, ci_upper |-> mnResult.ci_upper,
   se |-> mnResult.se]

\* Faulty variant of EqFMSE: the standard error from the mean of the rates.
EqFMSEPooled(p1, p2, n1, n2) ==
  NSqrt(NAdd(safeDivide(NMul(NDiv(NAdd(p1, p2), Two),
                             NSub(One, NDiv(NAdd(p1, p2), Two))), n1, Zero),
             safeDivide(NMul(NDiv(NAdd(p1, p2), Two),
                             NSub(One, NDiv(NAdd(p1, p2), Two))), n2, Zero)))

\* Lines 754-756: var1, var2 and se of the 'fm' branch.
EqFMSE(p1, p2, n1, n2) ==
  NSqrt(NAdd(safeDivide(NMul(p1, NSub(One, p1)), n1, Zero),
             safeDivide(NMul(p2, NSub(One, p2)), n2, Zero)))

\* Lines 758-772: the early return and the interval of the 'fm' branch.
EqFMInterval(diff, z_alpha, se) ==
  IF ~IsFinite(se) \/ IsZero(se) THEN None
  ELSE [ci_lower |-> NSub(diff, NMul(z_alpha, se)),
        ci_upper |-> NAdd(diff, NMul(z_alpha, se)), se |-> se]

\* Lines 752-815: the branches 'fm', 'wilson', 'mn' and the default.
EqInterval(method, n1, s1, n2, s2, p1, p2, z_alpha) ==
  IF method = "fm"
  THEN The({EqFMInterval(NSub(p2, p1), z_alpha, se)
            : se \in {EqFMSE(p1, p2, n1, n2)}})
  ELSE IF method = "mn"
  THEN The({EqMNInterval(mnResult)
            : mnResult \in {calculateMNResult(s1, n1, s2, n2, Zero, z_alpha)}})
  ELSE IF method = "wilson"
  THEN The({Newcombe(wilson1, wilson2, p1, p2, n1, n2)
            : wilson1 \in {calculateWilsonCI(s1, n1, z_alpha)},
              wilson2 \in {calculateWilsonCI(s2, n2, z_alpha)}})
  ELSE The({EqWaldInterval(NSub(p2, p1), z_alpha, se)
            : se \in {EqWaldSE(p1, p2, n1, n2)}})

\* Lines 819-836.
EqReturn(p1, p2, delta, iv, z1, z2) ==
  [p1 |-> p1, p2 |-> p2, diff |-> NSub(p2, p1),
   ci_lower |-> iv.ci_lower, ci_upper |-> iv.ci_upper,
   p_value |-> NMax(NSub(One, normalCDF(z1)), normalCDF(z2)),
   testStatistic |-> NDiv(NAdd(z1, z2), Two),
   isNonInferior |-> NGt(iv.ci_lower, NNeg(delta)) /\ NLt(iv.ci_upper, delta),
   testStatisticLabel |-> IF toFixed(z1) = "TypeError" THEN "TypeError"
                          ELSE toFixed(z2),
   z1 |-> z1, z2 |-> z2]

\* Lines 817-818: the two one-sided statistics.
EqTOST(p1, p2, delta, iv) ==
  IF iv = None THEN EqDegenerate
  ELSE The({EqReturn(p1, p2, delta, iv, z1, z2)
            : z1 \in {safeDivide(NAdd(NSub(p2, p1), delta), iv.se, Zero)},
              z2 \in {safeDivide(NSub(NSub(p2, p1), delta), iv.se, Zero)}})

EqWithRates(n1, s1, n2, s2, delta, method, p1, p2, z_alpha) ==
  IF ~IsFinite(z_alpha) THEN EqDegenerate
  ELSE The({EqTOST(p1, p2, delta, iv)
            : iv \in {EqInterval(method, n1, s1, n2, s2, p1, p2, z_alpha)}})

EqWithQuantile(n1, s1, n2, s2, delta, useContinuity, method, q) ==
  [value |-> The({EqWithRates(n1, s1, n2, s2, delta, method, p1, p2, q.value)
                  : p1 \in {EqRate(s1, n1, useContinuity)},
                    p2 \in {EqRate(s2, n2, useContinuity)}}),
   cache |-> q.cache]

\* calculateEqResult on the quantile cache c: the returned object, with the
\* locals z1 and z2, and the cache after the call.
calculateEqResult(c, n1, s1, n2, s2, delta, alpha, useContinuity, method) ==
  The({EqWithQuantile(safeNumber(n1, One), safeNumber(s1, Zero),
                      safeNumber(n2, One), safeNumber(s2, Zero),
                      safeNumber(delta, Zero), useContinuity, method, q)
       : q \in {normalInverse(c, NSub(One, NDiv(safeNumber(alpha, Zero),
                                                 Two)))}})

\* ------------------------------------------------------------------------
\* Non-inferiority and superiority trials (two-group.js, calculateNIResult
\* and calculateSupResult)
\* ------------------------------------------------------------------------
\* Faulty variant of NIDelta0: the margin passed without negation.
NIDelta0Kept(delta) == delta

\* The hypothesized difference calculateNIResult passes to the score
\* methods (lines 356, 390).
NIDelta0(delta) == NNeg(delta)

\* ci_lower, ci_upper, z_score and p_value = 1 - normalCDF(z_score) of the
\* Wilson and Wald branches (lines 385-386, 412-415).
OneSidedZ(ci_lower, ci_upper, z_score) ==
  [ci_lower |-> ci_lower, ci_upper |-> ci_upper, z_score |-> z_score,
   p_value |-> NSub(One, normalCDF(z_score))]

\* Faulty variant of OneSidedScore: z_score is not assigned and keeps the
\* value undefined of its declaration (line 351).
OneSidedScoreNoZ(r) ==
  [ci_lower |-> r.ci_lower, ci_upper |-> r.ci_upper, z_score |-> Undefined,
   p_value |-> r.p_value]

\* Lines 357-361, 390-394: the locals taken from the score method's result.
OneSidedScore(r) ==
  [ci_lower |-> r.ci_lower, ci_upper |-> r.ci_upper, z_score |-> r.z_score,
   p_value |-> r.p_value]

\* Lines 366-386.
OneSidedWilson(iv, diff, delta) ==
  The({OneSidedZ(iv.ci_lower, iv.ci_upper, z_score)
       : z_score \in {safeDivide(NAdd(diff, delta), iv.se, Zero)}})

\* Lines 396-415: None for the early return on a non-finite or zero se.
OneSidedWald(diff, delta, z_alpha, se) ==
  IF ~IsFinite(se) \/ IsZero(se) THEN None
  ELSE The({OneSidedZ(NSub(diff, NMul(z_alpha, se)),
                      NAdd(diff, NMul(z_alpha, se)), z_score)
            : z_score \in {safeDivide(NAdd(diff, delta), se, Zero)}})

\* Lines 353-416: the branch of the method, with hypothesized difference
\* delta0 for the score methods.
OneSidedBranch(method, n1, s1, n2, s2, delta, delta0, p1, p2, z_alpha) ==
  IF method = "fm"
  THEN The({OneSidedScore(fmResult)
            : fmResult \in {calculateFMResult(p1, p2, n1, n2, delta0,
                                              z_alpha)}})
  ELSE IF method = "wilson"
  THEN The({The({OneSidedWilson(iv, NSub(p2, p1), delta)
                 : iv \in {Newcombe(wilson1, wilson2, p1, p2, n1, n2)}})
            : wilson1 \in {calculateWilsonCI(s1, n1, z_alpha)},
              wilson2 \in {calculateWilsonCI(s2, n2, z_alpha)}})
  ELSE IF method = "mn"
  THEN The({OneSidedScore(mnResult)
            : mnResult \in {calculateMNResult(s1, n1, s2, n2, delta0,
                                              z_alpha)}})
  ELSE The({OneSidedWald(NSub(p2, p1), delta, z_alpha, se)
            : se \in {EqWaldSE(p1, p2, n1, n2)}})

\* The object of the early returns (lines 337-348, 400-409).
OneSidedDegenerate ==
  [p1 |-> Zero, p2 |-> Zero, diff |-> Zero, ci_lower |-> Zero,
   ci_upper |-> Zero, p_value |-> One, testStatistic |-> Zero,
   isNonInferior |-> FALSE, testStatisticLabel |-> "none"]

\* Lines 418-432: the returned object; its label calls z_score.toFixed(2).
OneSidedReturn(p1, p2, delta, b) ==
  IF b = None THEN OneSidedDegenerate
  ELSE [p1 |-> p1, p2 |-> p2, diff |-> NSub(p2, p1),
        ci_lower |-> b.ci_lower, ci_upper |-> b.ci_upper,
        p_value |-> b.p_value, testStatistic |-> b.z_score,
        isNonInferior |-> NGt(b.ci_lower, NNeg(delta)),
        testStatisticLabel |-> toFixed(b.z_score)]

\* Lines 325-432 with the quantile q = normalInverse(1 - alpha) on the cache.
OneSided(method, n1, s1, n2, s2, delta, delta0, useContinuity, q) ==
  [value |-> IF ~IsFinite(q.value) THEN OneSidedDegenerate
             ELSE The({The({OneSidedReturn(p1, p2, delta, b)
                  : b \in {OneSidedBranch(method, n1, s1, n2, s2, delta,
                                          delta0, p1, p2, q.value)}})
                  : p1 \in {EqRate(s1, n1, useContinuity)},
                    p2 \in {EqRate(s2, n2, useContinuity)}}),
   cache |-> q.cache]

\* calculateNIResult on the quantile cache c: the returned object and the
\* cache after the call.
calculateNIResult(c, n1, s1, n2, s2, delta, alpha, useContinuity, method) ==
  The({OneSided(method, safeNumber(n1, One), safeNumber(s1, Zero),
                safeNumber(n2, One), safeNumber(s2, Zero),
                safeNumber(delta, Zero), NIDelta0(safeNumber(delta, Zero)),
                useContinuity, q)
       : q \in {normalInverse(c, NSub(One, safeNumber(alpha, Zero)))}})

\* calculateSupResult: the same steps with no margin and delta0 = 0.
calculateSupResult(c, n1, s1, n2, s2, alpha, useContinuity, method) ==
  The({OneSided(method, safeNumber(n1, One), safeNumber(s1, Zero),
                safeNumber(n2, One), safeNumber(s2, Zero), Zero, Zero,
                useContinuity, q)
       : q \in {normalInverse(c, NSub(One, safeNumber(alpha, Zero)))}})

\* ------------------------------------------------------------------------
\* State
\* ------------------------------------------------------------------------
VARIABLES
  pc,      \* where the caller is: "ready", then the name of the call made
  arg,     \* the arguments of the call
  res,     \* the value the call returned
  ci,      \* the confidence-bound search in progress
  cache    \* normalInverseCache, most recently used entry first

vars == <<pc, arg, res, ci, cache>>

\* ------------------------------------------------------------------------
\* The two restricted-MLE solvers, called on every sample with group sizes
\* up to MaxN and on a set of hypothesized differences.
\* ------------------------------------------------------------------------
MaxN == 2

Samples ==
  {s \in [x1 : 0..MaxN, n1 : 1..MaxN, x2 : 0..MaxN, n2 : 1..MaxN] :
     s.x1 <= s.n1 /\ s.x2 <= s.n2}

\* Hypothesized differences: 0, +-0.1, +-0.5, -1, 5e-11 (below the pooled
\* shortcut's threshold) and NaN.
Deltas ==
  {Zero, NDec(1, 1), NDec(-1, 1), NDec(5, 1), NDec(-5, 1), NInt(-1),
   NDec(5, 11), NaN}

Init ==
  /\ pc = "ready"
  /\ arg \in {[x1 |-> s.x1, n1 |-> s.n1, x2 |-> s.x2, n2 |-> s.n2,
               delta0 |-> d] : s \in Samples, d \in Deltas}
  /\ res = None
  /\ ci = None
  /\ cache = EmptyCache

CallMN ==
  /\ pc = "ready"
  /\ res' = calculateMNConstrainedMLE(NInt(arg.x1), NInt(arg.n1),
                                      NInt(arg.x2), NInt(arg.n2), arg.delta0)
  /\ pc' = "mn"
  /\ UNCHANGED <<arg, ci, cache>>

\* The callers pass the observed rates s1/n1 and s2/n2 (lines 284, 330).
CallFM ==
  /\ pc = "ready"
  /\ res' = calculateFMRMLE(NDiv(NInt(arg.x1), NInt(arg.n1)),
                            NDiv(NInt(arg.x2), NInt(arg.n2)),
                            NInt(arg.n1), NInt(arg.n2), arg.delta0)
  /\ pc' = "fm"
  /\ UNCHANGED <<arg, ci, cache>>

Next == CallMN \/ CallFM

Spec == Init /\ [][Next]_vars

\* ------------------------------------------------------------------------
\* Properties of the solvers
\* ------------------------------------------------------------------------
\* delta0 is feasible: some p1 in (1e-8, 1 - 1e-8) has p1 + delta0 in
\* (1e-8, 1 - 1e-8), that is |delta0| < 1 - 2e-8.
Feasible(delta0) ==
  IsFinite(delta0) /\ NLt(NAbs(delta0), NSub(One, NDec(2, 8)))

\* |p2 - p1 - delta0| < 1e-6
ConstraintHolds(p1, p2, delta0) ==
  NLt(NAbs(NSub(NSub(p2, p1), delta0)), NDec(1, 6))

\* C1: for every sample and every feasible delta0 the pair returned by
\* calculateMNConstrainedMLE has |p2_mle - p1_mle - delta0| < 1e-6, on every
\* return path.
C1_MNConstraint ==
  (pc = "mn" /\ Feasible(arg.delta0))
    => ConstraintHolds(res.p1_mle, res.p2_mle, arg.delta0)

\* A bisection exit at a feasible nonzero delta0.
C1_Witness ==
  /\ pc = "mn" /\ Feasible(arg.delta0)
  /\ res.path = "bisect" /\ res.iters > 1
  /\ ConstraintHolds(res.p1_mle, res.p2_mle, arg.delta0)

\* C2: for every sample and every feasible delta0 the pair returned by
\* calculateFMRMLE has |p2_rmle - p1_rmle - delta0| < 1e-6, whichever way
\* the Newton loop ends.
C2_FMConstraint ==
  (pc = "fm" /\ Feasible(arg.delta0))
    => ConstraintHolds(res.p1_rmle, res.p2_rmle, arg.delta0)

\* C5: for any finite delta0 calculateFMRMLE returns two finite values, both
\* within [0.001, 0.999].
InFMRange(p) == IsFinite(p) /\ NGe(p, P001) /\ NLe(p, P999)

C5_FMRange ==
  (pc = "fm" /\ IsFinite(arg.delta0))
    => (InFMRange(res.p1_rmle) /\ InFMRange(res.p2_rmle))

\* C6: for every sample (rates 0 and 1 included) and every feasible delta0
\* both values returned by calculateMNConstrainedMLE lie within
\* [1e-8, 1 - 1e-8].
InMNRange(p) == IsFinite(p) /\ NGe(p, EPS8) /\ NLe(p, NSub(One, EPS8))

C6_MNRange ==
  (pc = "mn" /\ Feasible(arg.delta0))
    => (InMNRange(res.p1_mle) /\ InMNRange(res.p2_mle))

\* The score at the two ends of the feasible interval of the call in arg.
ScoreAtMin ==
  scoreFunc(NInt(arg.x1), NInt(arg.n1), NInt(arg.x2), NInt(arg.n2),
            arg.delta0, MNP1Min(arg.delta0))
ScoreAtMax ==
  scoreFunc(NInt(arg.x1), NInt(arg.n1), NInt(arg.x2), NInt(arg.n2),
            arg.delta0, MNP1Max(arg.delta0))

SameSign(a, b) ==
  (NGt(a, Zero) /\ NGt(b, Zero)) \/ (NLt(a, Zero) /\ NLt(b, Zero))

\* The call in arg reaches the evaluation of the score at the two ends
\* (lines 120-137): no pooled shortcut, a non-empty interval.
EndsEvaluated ==
  /\ pc = "mn"
  /\ ~NLt(NAbs(arg.delta0), TOL10)
  /\ ~NGe(MNP1Min(arg.delta0), MNP1Max(arg.delta0))

\* C7: when the score has the same sign at both ends of [p1_min, p1_max],
\* calculateMNConstrainedMLE returns the end whose score is closer to zero,
\* and p2 = that end + delta0.
C7_ClosestEnd ==
  (EndsEvaluated /\ SameSign(ScoreAtMin, ScoreAtMax))
    => LET best == IF NLe(NAbs(ScoreAtMin), NAbs(ScoreAtMax))
                   THEN MNP1Min(arg.delta0) ELSE MNP1Max(arg.delta0)
       IN  res.p1_mle = best /\ res.p2_mle = NAdd(best, arg.delta0)

C7_Witness ==
  /\ EndsEvaluated /\ SameSign(ScoreAtMin, ScoreAtMax)
  /\ res.path = "at_max"
  /\ res.p1_mle = MNP1Max(arg.delta0)
  /\ NLt(NAbs(ScoreAtMax), NAbs(ScoreAtMin))

\* ------------------------------------------------------------------------
\* calculateMNResult, one pass of a confidence-bound search per step, and
\* calculateFMResult, on a set of calls.
\* ------------------------------------------------------------------------
Z975 == NFix(1, 1, 9599, 6398, 4540, 540)      \* normalInverse(0.975)

\* <<x1, n1, x2, n2, delta0>>: a sample whose lower bound is the end of the
\* search bracket, a sample with no success, a sample that takes the FM
\* fallback at delta0 = -1, an ordinary sample, an empty control group
\* (observed rate 0/0) with a NaN margin, a sample with observed difference
\* -1.
ResultCalls ==
  {<<0, 4, 1, 4, NDec(-1, 1)>>, <<0, 1, 0, 1, Zero>>, <<1, 2, 2, 2, NInt(-1)>>,
   <<8, 20, 10, 20, NDec(-1, 1)>>, <<0, 0, 1, 2, NaN>>, <<1, 1, 0, 1, Zero>>}

InitResult ==
  /\ pc = "ready"
  /\ arg \in {[x1 |-> c[1], n1 |-> c[2], x2 |-> c[3], n2 |-> c[4],
               delta0 |-> c[5], z_alpha |-> Z975] : c \in ResultCalls}
  /\ res = None
  /\ ci = None
  /\ cache = EmptyCache

\* The locals of calculateMNResult that later lines read.
MNLocals(st) ==
  [diff |-> st.diff, z_score |-> st.z_score, p_value |-> st.p_value,
   se |-> st.se]

\* Lines 174-192 of calculateMNResult.
MNStatistic ==
  /\ pc = "ready"
  /\ res' = MNLocals(MNStat(NInt(arg.x1), NInt(arg.n1), NInt(arg.x2),
                            NInt(arg.n2), arg.delta0))
  /\ pc' = "stat"
  /\ UNCHANGED <<arg, ci, cache>>

\* findMNCIBound is entered (lines 196-197, 233-236, 250-251): the lower
\* bound first, the upper bound once the lower one is known.  i counts the
\* loop passes, calls the solver invocations, inner the bisection passes of
\* the last invocation.
CIEnter ==
  /\ \/ pc = "stat" /\ pc' = "lower"
     \/ pc = "lower_done" /\ pc' = "upper"
  /\ LET b == CIInit(res.diff, pc')
     IN  ci' = [bound |-> pc', lo |-> b.lo, hi |-> b.hi, i |-> 0,
                calls |-> 0, inner |-> 0, broke |-> FALSE]
  /\ UNCHANGED <<arg, res, cache>>

\* The search state after a pass that left bracket b, its solver call having
\* made inner bisection passes.
CIAfter(c, b, inner) ==
  [c EXCEPT !.lo = b.lo, !.hi = b.hi, !.i = c.i + 1, !.calls = c.calls + 1,
            !.inner = inner, !.broke = CIBreak(b.lo, b.hi)]

\* A pass at midpoint mid whose solver call returned mle (lines 239-246).
CIPass(c, mid, mle, n1, n2, diff, z_alpha) ==
  CIAfter(c, CIUpdate(ZOfMLE(mle, n1, n2, diff, mid), z_alpha, c.bound,
                      c.lo, c.hi, mid),
          mle.iters)

\* One pass of the loop of findMNCIBound (lines 238-247, 253-262).
CILoop ==
  /\ pc \in {"lower", "upper"}
  /\ ~ci.broke /\ ci.i < CIMaxIter
  /\ ci' = CIPass(ci, CIMid(ci.lo, ci.hi),
                  calculateMNConstrainedMLE(NInt(arg.x1), NInt(arg.n1),
                                            NInt(arg.x2), NInt(arg.n2),
                                            CIMid(ci.lo, ci.hi)),
                  NInt(arg.n1), NInt(arg.n2), res.diff, arg.z_alpha)
  /\ UNCHANGED <<pc, arg, res, cache>>

\* return lo / return hi (lines 248, 263).
CIReturn ==
  /\ pc \in {"lower", "upper"}
  /\ ci.broke \/ ci.i >= CIMaxIter
  /\ \/ pc = "lower" /\ pc' = "lower_done"
        /\ res' = [diff |-> res.diff, z_score |-> res.z_score,
                   p_value |-> res.p_value, se |-> res.se,
                   ci_lower |-> CIValue("lower", ci.lo, ci.hi)]
     \/ pc = "upper" /\ pc' = "mn_result"
        /\ res' = [ci_lower |-> res.ci_lower,
                   ci_upper |-> CIValue("upper", ci.lo, ci.hi),
                   z_score |-> res.z_score, p_value |-> res.p_value,
                   se |-> res.se]
  /\ UNCHANGED <<arg, ci, cache>>

CallFMResult ==
  /\ pc = "ready"
  /\ res' = calculateFMResult(NDiv(NInt(arg.x1), NInt(arg.n1)),
                              NDiv(NInt(arg.x2), NInt(arg.n2)),
                              NInt(arg.n1), NInt(arg.n2), arg.delta0,
                              arg.z_alpha)
  /\ pc' = "fm_result"
  /\ UNCHANGED <<arg, ci, cache>>

NextResult ==
  \/ CallMN \/ CallFM
  \/ MNStatistic \/ CIEnter \/ CILoop \/ CIReturn
  \/ CallFMResult

SpecResult == InitResult /\ [][NextResult]_vars

\* ------------------------------------------------------------------------
\* Properties of the results
\* ------------------------------------------------------------------------
ValidSample ==
  /\ arg.n1 > 0 /\ arg.n2 > 0
  /\ 0 <= arg.x1 /\ arg.x1 <= arg.n1
  /\ 0 <= arg.x2 /\ arg.x2 <= arg.n2

\* z(d): the solver, the variance and the score statistic re-run at
\* hypothesized difference d for the sample in arg.
ZAt(d) ==
  MNStat(NInt(arg.x1), NInt(arg.n1), NInt(arg.x2), NInt(arg.n2), d).z_score

Within(a, b, tol) == NLe(NAbs(NSub(a, b)), tol)

\* C3: for every valid sample and every finite positive critical value the
\* bounds returned by findMNCIBound satisfy |z(ci_lower) - zCritical| <= 1e-4
\* and |z(ci_upper) + zCritical| <= 1e-4.
C3_CISelfConsistent ==
  (ValidSample /\ IsFinite(arg.z_alpha) /\ NGt(arg.z_alpha, Zero))
    => /\ pc \in {"lower_done", "mn_result"}
            => Within(ZAt(res.ci_lower), arg.z_alpha, NDec(1, 4))
       /\ pc = "mn_result"
            => Within(ZAt(res.ci_upper), NNeg(arg.z_alpha), NDec(1, 4))

\* The variance is non-finite or <= 0.
Degenerate(v) == ~IsFinite(v) \/ NLe(v, Zero)

VarianceMN ==
  MNStat(NInt(arg.x1), NInt(arg.n1), NInt(arg.x2), NInt(arg.n2),
         arg.delta0).variance
VarianceFM ==
  FMStat(NDiv(NInt(arg.x1), NInt(arg.n1)), NDiv(NInt(arg.x2), NInt(arg.n2)),
         NInt(arg.n1), NInt(arg.n2), arg.delta0).variance

\* C4: when the variance computed from the restricted MLE of a valid sample
\* is non-finite or <= 0, calculateMNResult and calculateFMResult report the statistic as an
\* undefined sentinel: not a finite z (in particular not z = 0), and no
\* finite p-value derived from it.
C4_UndefinedSentinel ==
  /\ (pc = "mn_result" /\ ValidSample /\ Degenerate(VarianceMN))
       => (~IsFinite(res.z_score) /\ ~IsFinite(res.p_value))
  /\ (pc = "fm_result" /\ ValidSample /\ Degenerate(VarianceFM))
       => (~IsFinite(res.z_score) /\ ~IsFinite(res.p_value))

\* C8: the FM Newton loop runs at most 20 passes, the MN bisection at most
\* 100, each confidence-bound search at most 100 passes, and each pass of a
\* search invokes the solver exactly once, for every input, NaN included.
C8_IterationCaps ==
  /\ pc = "fm" => res.iters <= 20
  /\ pc = "mn" => res.iters <= 100
  /\ ci # None => (ci.i <= 100 /\ ci.calls = ci.i /\ ci.inner <= 100)

\* A search that stops at its cap, every pass of it with a solver call that
\* stops at its own cap.
C8_Witness ==
  /\ pc \in {"lower_done", "mn_result"}
  /\ ci.i = 100 /\ ci.calls = 100 /\ ci.inner = 100

\* ------------------------------------------------------------------------
\* Quantile specification: calls of normalInverse on the module's cache
\* ------------------------------------------------------------------------
MaxCalls == 3

QuantileProbs ==
  {NDec(975, 3), NAdd(NDec(975, 3), NDec(4, 11)), NDec(8, 1), NDec(1, 2),
   NDec(995, 3), NDec(51, 2), Zero, One}

\* The cache c after normalInverse((50 + i) / 100), ..., normalInverse((50 + n)
\* / 100).
RECURSIVE CacheAfter(_, _, _)
CacheAfter(c, i, n) ==
  IF i > n \/ c.misses < 0 THEN c
  ELSE CacheAfter(normalInverse(c, NDec(50 + i, 2)).cache, i + 1, n)

FullCache == CacheAfter(EmptyCache, 1, CacheCapacity)

InitQuantile ==
  /\ pc = "ready"
  /\ arg = [p |-> None, calls |-> 0]
  /\ res = None
  /\ ci = None
  /\ cache \in {EmptyCache, FullCache}

CallNormalInverse ==
  /\ arg.calls < MaxCalls
  /\ \E p \in QuantileProbs :
       \E r \in {normalInverse(cache, p)} :
         /\ pc' = "quantile"
         /\ arg' = [p |-> p, calls |-> arg.calls + 1]
         /\ res' = r.value
         /\ cache' = r.cache
  /\ UNCHANGED ci

ClearCache ==
  /\ pc' = "cleared"
  /\ cache' = clearNormalInverseCache(cache)
  /\ UNCHANGED <<arg, res, ci>>

NextQuantile == CallNormalInverse \/ ClearCache

SpecQuantile == InitQuantile /\ [][NextQuantile]_vars

\* C9: the value normalInverse(p) returns depends only on p: it is the value
\* the call returns on a freshly constructed (or just cleared) cache, whatever
\* the earlier calls and the cache contents.
C9_QuantilePure ==
  pc = "quantile" => res = normalInverse(EmptyCache, arg.p).value

\* ------------------------------------------------------------------------
\* Equivalence specification: calls of calculateEqResult
\* ------------------------------------------------------------------------
\* Calls <<n1, s1, n2, s2>> with margins 0.1 and 0.2 and levels 0.05, 0.1 and
\* 0 (whose quantile normalInverse(1) is Infinity): the closed-form methods
\* on every sample, margin and level; the Miettinen-Nurminen method, which
\* costs two bound searches, on one.
EqCalls ==
  {[n1 |-> NInt(c[1]), s1 |-> NInt(c[2]), n2 |-> NInt(c[3]),
    s2 |-> NInt(c[4]), delta |-> d, alpha |-> a, useContinuity |-> u,
    method |-> m] :
     c \in {<<20, 8, 20, 10>>, <<20, 10, 20, 10>>, <<10, 3, 10, 4>>,
            <<4, 0, 4, 1>>, <<1, 0, 1, 0>>},
     d \in {NDec(1, 1), NDec(2, 1)},
     a \in {NDec(5, 2), NDec(1, 1), Zero},
     u \in BOOLEAN,
     m \in {"fm", "wald"}}
  \cup
  {[n1 |-> NInt(20), s1 |-> NInt(8), n2 |-> NInt(20), s2 |-> NInt(10),
    delta |-> NDec(2, 1), alpha |-> NDec(5, 2), useContinuity |-> FALSE,
    method |-> "mn"]}

InitEq ==
  /\ pc = "ready"
  /\ arg \in EqCalls
  /\ res = None
  /\ ci = None
  /\ cache = EmptyCache

CallEqResult ==
  /\ pc = "ready"
  /\ \E r \in {calculateEqResult(cache, arg.n1, arg.s1, arg.n2, arg.s2,
                                 arg.delta, arg.alpha, arg.useContinuity,
                                 arg.method)} :
       /\ res' = r.value
       /\ cache' = r.cache
  /\ pc' = "eq"
  /\ UNCHANGED <<arg, ci>>

NextEq == CallEqResult

SpecEq == InitEq /\ [][NextEq]_vars

\* The statistic of the method's own chain at the hypothesized difference
\* delta0: calculateFMResult on the observed rates, calculateMNResult on the
\* counts.
ChainZ(a, delta0) ==
  IF a.method = "fm"
  THEN FMStat(NDiv(a.s1, a.n1), NDiv(a.s2, a.n2), a.n1, a.n2, delta0).z_score
  ELSE MNStat(a.s1, a.n1, a.s2, a.n2, delta0).z_score

\* Both observed rates lie strictly between 0 and 1.
InteriorRates(a) ==
  /\ NLt(Zero, a.s1) /\ NLt(a.s1, a.n1)
  /\ NLt(Zero, a.s2) /\ NLt(a.s2, a.n2)

\* C10: for the methods 'fm' and 'mn' (without continuity correction, on a
\* sample whose observed rates are strictly inside (0, 1)), z1 is the
\* statistic of the method's solver, variance and statistic chain at
\* delta0 = -margin and z2 the one at delta0 = +margin (to within 1e-6).
C10_TOSTAtMargins ==
  (/\ pc = "eq"
   /\ arg.method \in {"fm", "mn"}
   /\ ~arg.useContinuity
   /\ InteriorRates(arg)
   /\ res.z1 # None)
  => /\ Within(res.z1, ChainZ(arg, NNeg(arg.delta)), NDec(1, 6))
     /\ Within(res.z2, ChainZ(arg, arg.delta), NDec(1, 6))

\* C11: the reported success flag of calculateEqResult is true exactly when
\* the reported bounds satisfy -margin < ci_lower and ci_upper < +margin,
\* both strictly, for every method.
C11_StrictInsideMargins ==
  pc = "eq" =>
    (res.isNonInferior <=>
       (NLt(NNeg(arg.delta), res.ci_lower) /\ NLt(res.ci_upper, arg.delta)))

\* ------------------------------------------------------------------------
\* Trial specification: calls of calculateNIResult, calculateSupResult and
\* calculateEqResult, ordinary and degenerate
\* ------------------------------------------------------------------------
\* The values an argument can hold besides a finite number.
OddValues == {Null, Undefined, NaN, PInf, NInf, Zero}

\* The arguments <<n1, s1, n2, s2, delta, alpha>> of a call, as numbers.
TrialArgs(c, u, m) ==
  [n1 |-> c[1], s1 |-> c[2], n2 |-> c[3], s2 |-> c[4], delta |-> c[5],
   alpha |-> c[6], useContinuity |-> u, method |-> m]

BaseArgs == <<NInt(20), NInt(8), NInt(20), NInt(10), NDec(1, 1), NDec(5, 2)>>

\* Ordinary calls at levels 0.05 and 0 on every closed-form method (an
\* unknown selector takes the default branch); calls with one argument, or
\* both group sizes, replaced by an odd value; the Miettinen-Nurminen
\* method on two small samples and on empty groups.
TrialCalls ==
  {TrialArgs(<<NInt(c[1]), NInt(c[2]), NInt(c[3]), NInt(c[4]), NDec(1, 1), a>>,
             u, m) :
     c \in {<<20, 8, 20, 10>>, <<10, 3, 10, 4>>, <<4, 0, 4, 1>>},
     a \in {NDec(5, 2), Zero},
     u \in BOOLEAN,
     m \in {"fm", "wilson", "wald", "other"}}
  \cup
  {TrialArgs([BaseArgs EXCEPT ![i] = v], FALSE, m) :
     i \in 1..6, v \in OddValues, m \in {"fm", "wilson", "wald"}}
  \cup
  {TrialArgs([BaseArgs EXCEPT ![1] = v, ![3] = v], u, m) :
     v \in {Zero, Undefined}, u \in BOOLEAN,
     m \in {"fm", "wilson", "wald", "mn"}}
  \cup
  {TrialArgs(<<NInt(2), NInt(1), NInt(2), NInt(1), NDec(1, 1), a>>, FALSE,
             "mn") : a \in {NDec(5, 2), Zero}}
  \cup
  {TrialArgs(<<NInt(2), NInt(1), NInt(2), NInt(2), NDec(1, 1), NDec(5, 2)>>,
             FALSE, "mn")}

InitTrial ==
  /\ pc = "ready"
  /\ arg \in TrialCalls
  /\ res = None
  /\ ci = None
  /\ cache = EmptyCache

CallNIResult ==
  /\ pc = "ready"
  /\ \E r \in {calculateNIResult(cache, arg.n1, arg.s1, arg.n2, arg.s2,
                                 arg.delta, arg.alpha, arg.useContinuity,
                                 arg.method)} :
       /\ res' = r.value
       /\ cache' = r.cache
  /\ pc' = "ni"
  /\ UNCHANGED <<arg, ci>>

CallSupResult ==
  /\ pc = "ready"
  /\ \E r \in {calculateSupResult(cache, arg.n1, arg.s1, arg.n2, arg.s2,
                                  arg.alpha, arg.useContinuity, arg.method)} :
       /\ res' = r.value
       /\ cache' = r.cache
  /\ pc' = "sup"
  /\ UNCHANGED <<arg, ci>>

NextTrial == CallNIResult \/ CallSupResult \/ CallEqResult

SpecTrial == InitTrial /\ [][NextTrial]_vars

\* Every argument is a finite number, the group sizes are positive and the
\* successes do not exceed them.
OrdinaryCall(a) ==
  /\ \A f \in {"n1", "s1", "n2", "s2", "delta", "alpha"} : IsFinite(a[f])
  /\ NGt(a.n1, Zero) /\ NGt(a.n2, Zero)
  /\ NLe(Zero, a.s1) /\ NLe(a.s1, a.n1)
  /\ NLe(Zero, a.s2) /\ NLe(a.s2, a.n2)

\* C12: a call of calculateNIResult, calculateSupResult or calculateEqResult
\* with alpha = 0 on an ordinary sample returns NaN as confidence bounds,
\* p-value and test statistic.
C12_AlphaZeroNaN ==
  (pc \in {"ni", "sup", "eq"} /\ OrdinaryCall(arg) /\ IsZero(arg.alpha))
  => /\ IsNaN(res.ci_lower)
     /\ IsNaN(res.ci_upper)
     /\ IsNaN(res.p_value)
     /\ IsNaN(res.testStatistic)

\* C13: calculateNIResult, calculateSupResult and calculateEqResult never
\* throw: for finite, NaN, infinite, null and undefined arguments, empty
\* groups included, and every method selector, the call returns a result
\* object (the only operation of the three functions that can throw is
\* toFixed on the statistic, which a TypeError label records).
C13_NeverThrows ==
  pc \in {"ni", "sup", "eq"}
  => /\ res.testStatisticLabel \in {"string", "none"}
     /\ {"ci_lower", "ci_upper", "p_value", "testStatistic", "isNonInferior"}
          \subseteq DOMAIN res

\* A score-method call on two empty groups went through to the final return.
C13_Witness ==
  /\ pc \in {"ni", "sup"}
  /\ IsZero(arg.n1) /\ IsZero(arg.n2)
  /\ arg.method \in {"fm", "mn"}
  /\ res.testStatisticLabel = "string"

\* ------------------------------------------------------------------------
\* Properties of the variance
\* ------------------------------------------------------------------------
\* p1 (1 - p1) / n1 + p2 (1 - p2) / n2.
PlugIn(p1, p2, n1, n2) ==
  NAdd(NDiv(NMul(p1, NSub(One, p1)), n1), NDiv(NMul(p2, NSub(One, p2)), n2))

\* N / (N - 1) for N = n1 + n2.
SmallSample(n1, n2) == NDiv(NAdd(n1, n2), NSub(NAdd(n1, n2), One))

\* The pooled variance pbar (1 - pbar) (1/n1 + 1/n2), pbar = (x1+x2)/(n1+n2).
PooledVariance(x1, n1, x2, n2) ==
  PlugIn(NDiv(NAdd(x1, x2), NAdd(n1, n2)), NDiv(NAdd(x1, x2), NAdd(n1, n2)),
         n1, n2)

\* C14: with the restricted MLE of the state, the variance of
\* calculateMNResult is N/(N-1) x [p1*(1-p1*)/n1 + p2*(1-p2*)/n2], the
\* statistic of the CI search divides by the root of the same variance
\* (floored at 1e-12), at delta0 = 0 that variance is the pooled variance x
\* N/(N-1), and the variance of calculateFMResult is the plug-in sum alone.
C14_VarianceCorrection ==
  LET x1 == NInt(arg.x1)
      n1 == NInt(arg.n1)
      x2 == NInt(arg.x2)
      n2 == NInt(arg.n2)
  IN  /\ (pc = "mn" /\ IsFinite(arg.delta0))
         => /\ MNStatOf(ObsDiff(x1, n1, x2, n2), arg.delta0, res, n1, n2).variance
                 = NMul(SmallSample(n1, n2),
                        PlugIn(res.p1_mle, res.p2_mle, n1, n2))
            /\ ZOfMLE(res, n1, n2, ObsDiff(x1, n1, x2, n2), arg.delta0)
                 = NDiv(NSub(ObsDiff(x1, n1, x2, n2), arg.delta0),
                        NSqrt(NMax(NMul(SmallSample(n1, n2),
                                        PlugIn(res.p1_mle, res.p2_mle, n1, n2)),
                                   TOL12)))
            /\ IsZero(arg.delta0)
                 => Within(MNStatOf(ObsDiff(x1, n1, x2, n2), arg.delta0, res,
                                    n1, n2).variance,
                           NMul(PooledVariance(x1, n1, x2, n2),
                                SmallSample(n1, n2)),
                           TOL12)
      /\ (pc = "fm" /\ IsFinite(arg.delta0))
         => FMStatOf(ObsDiff(x1, n1, x2, n2), arg.delta0, res, n1, n2).variance
              = PlugIn(res.p1_rmle, res.p2_rmle, n1, n2)

\* The solver has returned for 1/2 against 1/2 at delta0 = 0, where the
\* corrected variance 1/3 differs from the plug-in sum 1/4.
C14_Witness ==
  /\ pc = "mn"
  /\ arg.x1 = 1 /\ arg.n1 = 2 /\ arg.x2 = 1 /\ arg.n2 = 2
  /\ IsZero(arg.delta0)
  /\ NGt(MNVariance(res, NInt(2), NInt(2)),
         PlugIn(res.p1_mle, res.p2_mle, NInt(2), NInt(2)))

\* C15: if |delta0| < 1e-10, calculateMNConstrainedMLE returns p1_mle =
\* p2_mle = (x1 + x2) / (n1 + n2) from the shortcut, with no evaluation of
\* the score and no pass of the bisection loop.
C15_PooledShortcut ==
  (pc = "mn" /\ NLt(NAbs(arg.delta0), NDec(1, 10)))
  => /\ res.p1_mle = NDiv(NInt(arg.x1 + arg.x2), NInt(arg.n1 + arg.n2))
     /\ res.p2_mle = res.p1_mle
     /\ res.path = "pooled"
     /\ res.iters = 0

\* The shortcut has been taken for the nonzero delta0 = 5e-11 on a sample
\* whose groups differ.
C15_Witness ==
  /\ pc = "mn"
  /\ arg.delta0 = NDec(5, 11)
  /\ arg.x1 = 0 /\ arg.n1 = 2 /\ arg.x2 = 1 /\ arg.n2 = 1
  /\ res.path = "pooled"
  /\ res.p1_mle = NDiv(NInt(1), NInt(3))

\* The statistic of the score method of call a at hypothesized difference
\* delta0: calculateFMResult on the rates r.p1 and r.p2 the call computed,
\* calculateMNResult on the counts.
ScoreZ(a, r, delta0) ==
  IF a.method = "fm"
  THEN FMStat(r.p1, r.p2, a.n1, a.n2, delta0).z_score
  ELSE MNStat(a.s1, a.n1, a.s2, a.n2, delta0).z_score

\* C16: for the methods 'fm' and 'mn' on an ordinary sample with alpha > 0,
\* the statistic calculateSupResult reports is the one of the method's
\* solver and variance at delta0 = 0, and the statistic calculateNIResult
\* reports is the one at delta0 = -delta.
C16_HypothesizedDifference ==
  (/\ pc \in {"ni", "sup"}
   /\ arg.method \in {"fm", "mn"}
   /\ OrdinaryCall(arg)
   /\ ~IsZero(arg.alpha))
  => /\ pc = "sup" => res.testStatistic = ScoreZ(arg, res, Zero)
     /\ pc = "ni" => res.testStatistic = ScoreZ(arg, res, NNeg(arg.delta))

\* calculateNIResult has returned for 'mn' on 1/2 against 1/2 with margin
\* 0.1: the statistic at delta0 = -0.1 is positive, the one at 0 is zero.
C16_Witness ==
  /\ pc = "ni"
  /\ arg.method = "mn"
  /\ OrdinaryCall(arg)
  /\ ~IsZero(arg.alpha)
  /\ NGt(res.testStatistic, Zero)
  /\ IsZero(res.diff)

\* ------------------------------------------------------------------------
\* C17: the quantile cache
\* ------------------------------------------------------------------------
\* The keys of the items, most recently accessed first.
KeysOf(items) == [i \in 1..Len(items) |-> items[i].key]

\* The sequence s without its element at position i.
Without(s, i) == SubSeq(s, 1, i - 1) \o SubSeq(s, i + 1, Len(s))

\* The keys after an access of key k to a cache holding the keys ks in order
\* of last access, newest first: k becomes the newest; the others keep their
\* order; a new key added to CacheCapacity keys drops the oldest.
KeysAfterAccess(ks, k) ==
  IF \E i \in 1..Len(ks) : ks[i] = k
  THEN <<k>> \o Without(ks, CHOOSE i \in 1..Len(ks) : ks[i] = k)
  ELSE IF Len(ks) = CacheCapacity
  THEN <<k>> \o SubSeq(ks, 1, CacheCapacity - 1)
  ELSE <<k>> \o ks

\* The nearest multiple of 10^-10 to p, as a count of units of 10^-10.
Rounded10(p) ==
  CHOOSE k \in {ToFixed10(p)[2], BAdd(ToFixed10(p)[2], <<1>>)} :
    /\ NLe(NAbs(NSub(p, Mk(1, BMul(k, BFromInt(1000 * 1000))))), NDec(5, 11))

VarianceHere ==
  IF pc = "mn"
  THEN MNStatOf(ObsDiff(NInt(arg.x1), NInt(arg.n1), NInt(arg.x2), NInt(arg.n2)),
                arg.delta0, res, NInt(arg.n1), NInt(arg.n2)).variance
  ELSE FMStatOf(ObsDiff(NInt(arg.x1), NInt(arg.n1), NInt(arg.x2), NInt(arg.n2)),
                arg.delta0, res, NInt(arg.n1), NInt(arg.n2)).variance

VarianceSwapped ==
  IF pc = "mn"
  THEN MNStat(NInt(arg.x2), NInt(arg.n2), NInt(arg.x1), NInt(arg.n1),
              NNeg(arg.delta0)).variance
  ELSE FMStat(NDiv(NInt(arg.x2), NInt(arg.n2)), NDiv(NInt(arg.x1), NInt(arg.n1)),
              NInt(arg.n2), NInt(arg.n1), NNeg(arg.delta0)).variance

DiffSwapped ==
  IF pc = "mn"
  THEN MNStat(NInt(arg.x2), NInt(arg.n2), NInt(arg.x1), NInt(arg.n1),
              NNeg(arg.delta0)).diff
  ELSE FMStat(NDiv(NInt(arg.x2), NInt(arg.n2)), NDiv(NInt(arg.x1), NInt(arg.n1)),
              NInt(arg.n2), NInt(arg.n1), NNeg(arg.delta0)).diff

\* C18: for the FM and the MN strategy and every feasible delta0, the groups
\* exchanged and delta0 negated give the observed diff with its sign flipped
\* and the same variance (to 1e-9).
C18_LabelSwap ==
  (pc \in {"mn", "fm"} /\ Feasible(arg.delta0))
    => /\ DiffSwapped = NNeg(ObsDiff(NInt(arg.x1), NInt(arg.n1),
                                     NInt(arg.x2), NInt(arg.n2)))
       /\ Within(VarianceHere, VarianceSwapped, NDec(1, 9))

\* The same for the MN strategy alone.
C18_LabelSwapMN ==
  (pc = "mn" /\ Feasible(arg.delta0))
    => /\ DiffSwapped = NNeg(ObsDiff(NInt(arg.x1), NInt(arg.n1),
                                     NInt(arg.x2), NInt(arg.n2)))
       /\ Within(VarianceHere, VarianceSwapped, NDec(1, 9))

\* ------------------------------------------------------------------------
\* C19: interval width against sample size
\* ------------------------------------------------------------------------
Width(r) == NSub(r.ci_upper, r.ci_lower)

\* The result of calculateMNResult for the sample of the state with group 1
\* (k1 = 2) or group 2 (k2 = 2) doubled at the same observed rate.
MNResultScaled(k1, k2) ==
  calculateMNResult(NInt(k1 * arg.x1), NInt(k1 * arg.n1), NInt(k2 * arg.x2),
                    NInt(k2 * arg.n2), arg.delta0, arg.z_alpha)

\* C19: at fixed observed rates and critical value, a larger n1 or a larger
\* n2 gives a strictly narrower interval ci_upper - ci_lower.
C19_WidthDecreases ==
  (pc = "mn_result" /\ ValidSample)
    => /\ NLt(Width(MNResultScaled(2, 1)), Width(res))
       /\ NLt(Width(MNResultScaled(1, 2)), Width(res))

\* ------------------------------------------------------------------------
\* Two-group sample sizes (sample-size/multigroup.js, calculateNISampleSize;
\* sample-size/two-group/superiority.js, calculateSupSampleSize;
\* sample-size/two-group/equivalence.js, calculateEqSampleSize)
\* ------------------------------------------------------------------------
FLOAT_EPSILON == NDec(1, 9)

\* Faulty variant of floatGte: the comparison without the tolerance.
floatGteExact(a, b) == NGe(a, b)

\* floatGte(a, b) with the default epsilon: a >= b - epsilon.
floatGte(a, b) == NGe(a, NSub(b, FLOAT_EPSILON))

\* Math.ceil of a number.
NCeil(a) ==
  IF ~IsFinite(a) THEN a
  ELSE LET whole == BShl(BShr(a[2], FracLimbs), FracLimbs)
       IN  IF whole = a[2] THEN a
           ELSE IF a[1] = 1 THEN NAdd(Mk(1, whole), One)
           ELSE Mk(-1, whole)

SizeNaN == [n1 |-> NaN, n2 |-> NaN]
SizeInfinity == [n1 |-> PInf, n2 |-> PInf]

\* (z_alpha + z_beta)^2 * (p1 (1 - p1) + p2 (1 - p2) / ratio).
SizeNumer(p1, p2, ratio, z_alpha, z_beta) ==
  NMul(NMul(NAdd(z_alpha, z_beta), NAdd(z_alpha, z_beta)),
       NAdd(NMul(p1, NSub(One, p1)),
            safeDivide(NMul(p2, NSub(One, p2)), ratio, Zero)))

\* n1 = Math.ceil(n1_raw), n2 = Math.ceil(n1 * ratio).
SizeRounded(n1_raw, ratio) ==
  The({[n1 |-> n1, n2 |-> NCeil(NMul(n1, ratio))] : n1 \in {NCeil(n1_raw)}})

\* Faulty variant of SizeOneSided: the zero effect size is not tested.
SizeOneSidedNoZeroTest(p1, p2, ratio, effectSize, z_alpha, z_beta) ==
  IF ~IsFinite(z_alpha) \/ ~IsFinite(z_beta) THEN SizeNaN
  ELSE The({IF NLt(n1_raw, Zero) THEN SizeNaN
            ELSE IF ~IsFinite(n1_raw) THEN SizeInfinity
            ELSE SizeRounded(n1_raw, ratio)
            : n1_raw \in {NDiv(SizeNumer(p1, p2, ratio, z_alpha, z_beta),
                               NMul(effectSize, effectSize))}})

\* The steps calculateNISampleSize and calculateSupSampleSize share after the
\* quantiles: the tests of the quantiles and of the effect size, the formula
\* and the rounding.
SizeOneSided(p1, p2, ratio, effectSize, z_alpha, z_beta) ==
  IF ~IsFinite(z_alpha) \/ ~IsFinite(z_beta) THEN SizeNaN
  ELSE IF NLt(NAbs(effectSize), TOL10) THEN SizeNaN
  ELSE The({IF NLt(n1_raw, Zero) THEN SizeNaN
            ELSE IF ~IsFinite(n1_raw) THEN SizeInfinity
            ELSE SizeRounded(n1_raw, ratio)
            : n1_raw \in {NDiv(SizeNumer(p1, p2, ratio, z_alpha, z_beta),
                               NMul(effectSize, effectSize))}})

\* The two quantiles, computed one after the other on the cache c.
SizeQuantiles(c, pa, pb) ==
  The({The({[z_alpha |-> qa.value, z_beta |-> qb.value, cache |-> qb.cache]
            : qb \in {normalInverse(qa.cache, pb)}})
       : qa \in {normalInverse(c, pa)}})

\* calculateNISampleSize on the quantile cache c: the returned object and
\* the cache after the call.
calculateNISampleSize(c, p1, p2, delta, alpha, power, ratio) ==
  The({[value |-> SizeOneSided(safeNumber(p1, Zero), safeNumber(p2, Zero),
                               safeNumber(ratio, One),
                               NAdd(NSub(safeNumber(p2, Zero),
                                         safeNumber(p1, Zero)),
                                    safeNumber(delta, Zero)),
                               q.z_alpha, q.z_beta),
        cache |-> q.cache]
       : q \in {SizeQuantiles(c, NSub(One, safeNumber(alpha, Zero)),
                              safeNumber(power, Zero))}})

calculateSupSampleSize(c, p1, p2, alpha, power, ratio) ==
  The({[value |-> SizeOneSided(safeNumber(p1, Zero), safeNumber(p2, Zero),
                               safeNumber(ratio, One),
                               NSub(safeNumber(p2, Zero),
                                    safeNumber(p1, Zero)),
                               q.z_alpha, q.z_beta),
        cache |-> q.cache]
       : q \in {SizeQuantiles(c, NSub(One, safeNumber(alpha, Zero)),
                              safeNumber(power, Zero))}})

\* Lines 119-141 of calculateEqSampleSize.
SizeEq(p1, p2, delta, ratio, absDiff, z_alpha, z_beta) ==
  IF ~IsFinite(z_alpha) \/ ~IsFinite(z_beta) THEN SizeNaN
  ELSE IF floatGte(absDiff, delta) THEN SizeInfinity
  ELSE The({IF NLt(n1_raw, Zero) \/ ~IsFinite(n1_raw) THEN SizeInfinity
            ELSE SizeRounded(n1_raw, ratio)
            : n1_raw \in {safeDivide(
                            SizeNumer(p1, p2, ratio, z_alpha, z_beta),
                            NMul(NSub(delta, absDiff), NSub(delta, absDiff)),
                            Zero)}})

\* The probability of z_beta: (1 + power) / 2 when the expected difference
\* is zero, else power (lines 102-107).
EqBetaProb(absDiff, power) ==
  IF NLt(absDiff, TOL10) THEN NDiv(NAdd(One, power), Two) ELSE power

calculateEqSampleSize(c, p1, p2, delta, alpha, power, ratio) ==
  The({The({[value |-> SizeEq(safeNumber(p1, Zero), safeNumber(p2, Zero),
                              safeNumber(delta, Zero), safeNumber(ratio, One),
                              absDiff, q.z_alpha, q.z_beta),
             cache |-> q.cache]
            : q \in {SizeQuantiles(c, NSub(One, safeNumber(alpha, Zero)),
                                   EqBetaProb(absDiff,
                                              safeNumber(power, Zero)))}})
       : absDiff \in {NAbs(NSub(safeNumber(p2, Zero),
                                safeNumber(p1, Zero)))}})

\* ------------------------------------------------------------------------
\* Sample-size specification: calls of the three functions
\* ------------------------------------------------------------------------
\* Expected rates <<p1, p2>>: equal, 0.1 apart, 0.1 apart less 2e-11, far
\* apart, and at the ends 0 and 1.
SizeRates ==
  {<<NDec(7, 1), NDec(7, 1)>>, <<NDec(7, 1), NDec(6, 1)>>,
   <<NDec(5, 1), NDec(5, 1)>>, <<NDec(3, 1), NDec(7, 1)>>,
   <<NDec(5, 1), NDec(6, 1)>>, <<NDec(85, 2), NDec(95, 2)>>,
   <<NDec(5, 1), NSub(NDec(6, 1), NDec(2, 11))>>,
   <<Zero, Zero>>, <<Zero, One>>}

SizeCalls ==
  {[p1 |-> r[1], p2 |-> r[2], delta |-> d, alpha |-> a, power |-> w,
    ratio |-> k] :
     r \in SizeRates, d \in {NDec(1, 1), NDec(2, 1)},
     a \in {NDec(25, 3), Zero}, w \in {NDec(8, 1), One, Undefined},
     k \in {One, Two}}

InitSize ==
  /\ pc = "ready"
  /\ arg \in SizeCalls
  /\ res = None
  /\ ci = None
  /\ cache = EmptyCache

CallNISampleSize ==
  /\ pc = "ready"
  /\ \E r \in {calculateNISampleSize(cache, arg.p1, arg.p2, arg.delta,
                                     arg.alpha, arg.power, arg.ratio)} :
       res' = r.value /\ cache' = r.cache
  /\ pc' = "ni_size"
  /\ UNCHANGED <<arg, ci>>

CallSupSampleSize ==
  /\ pc = "ready"
  /\ \E r \in {calculateSupSampleSize(cache, arg.p1, arg.p2, arg.alpha,
                                      arg.power, arg.ratio)} :
       res' = r.value /\ cache' = r.cache
  /\ pc' = "sup_size"
  /\ UNCHANGED <<arg, ci>>

CallEqSampleSize ==
  /\ pc = "ready"
  /\ \E r \in {calculateEqSampleSize(cache, arg.p1, arg.p2, arg.delta,
                                     arg.alpha, arg.power, arg.ratio)} :
       res' = r.value /\ cache' = r.cache
  /\ pc' = "eq_size"
  /\ UNCHANGED <<arg, ci>>

NextSize == CallNISampleSize \/ CallSupSampleSize \/ CallEqSampleSize

SpecSize == InitSize /\ [][NextSize]_vars

\* ------------------------------------------------------------------------
\* C20, C21, C22: special values of the sample sizes
\* ------------------------------------------------------------------------
\* The effect size of the call of the state: p2 - p1 + delta for
\* non-inferiority, p2 - p1 for superiority.
EffectSize ==
  IF pc = "ni_size" THEN NAdd(NSub(arg.p2, arg.p1), arg.delta)
  ELSE NSub(arg.p2, arg.p1)

\* C20: calculateNISampleSize and calculateSupSampleSize return
\* {n1: NaN, n2: NaN} when alpha = 0, when power = 1, and when the effect
\* size is below 1e-10 in absolute value.
C20_NaNSpecialCases ==
  (/\ pc \in {"ni_size", "sup_size"}
   /\ \/ arg.alpha = Zero
      \/ arg.power = One
      \/ NLt(NAbs(EffectSize), NDec(1, 10)))
    => res.n1 = NaN /\ res.n2 = NaN

\* calculateNISampleSize(0.7, 0.6, 0.1, 0.025, 0.8, 1), whose effect size is
\* zero at valid alpha and power, has returned NaN.
C20_Witness ==
  /\ pc = "ni_size"
  /\ arg.p1 = NDec(7, 1) /\ arg.p2 = NDec(6, 1) /\ arg.delta = NDec(1, 1)
  /\ arg.alpha = NDec(25, 3) /\ arg.power = NDec(8, 1) /\ arg.ratio = One
  /\ res = SizeNaN

\* alpha and power are probabilities strictly between 0 and 1.
ValidAlphaPower ==
  /\ IsFinite(arg.alpha) /\ NGt(arg.alpha, Zero) /\ NLt(arg.alpha, One)
  /\ IsFinite(arg.power) /\ NGt(arg.power, Zero) /\ NLt(arg.power, One)

\* C21: with valid alpha and power, calculateEqSampleSize returns
\* {n1: Infinity, n2: Infinity} whenever |p2 - p1| is at least delta or below
\* it by no more than 1e-9.
C21_InfinityAtMargin ==
  (/\ pc = "eq_size"
   /\ ValidAlphaPower
   /\ NGe(NAbs(NSub(arg.p2, arg.p1)), NSub(arg.delta, NDec(1, 9))))
    => res.n1 = PInf /\ res.n2 = PInf

\* calculateEqSampleSize has returned Infinity for rates whose difference is
\* 2e-11 below the margin 0.1.
C21_Witness ==
  /\ pc = "eq_size"
  /\ ValidAlphaPower
  /\ arg.delta = NDec(1, 1)
  /\ NLt(NAbs(NSub(arg.p2, arg.p1)), arg.delta)
  /\ NGt(NAbs(NSub(arg.p2, arg.p1)), NDec(9, 2))
  /\ res = SizeInfinity

\* C22: every n1 returned by the two-group sample-size functions is a
\* positive integer, NaN or Infinity.
C22_PositiveOrSpecial ==
  pc \in {"ni_size", "sup_size", "eq_size"}
    => \/ res.n1 = NaN
       \/ res.n1 = PInf
       \/ IsFinite(res.n1) /\ NGt(res.n1, Zero) /\ NCeil(res.n1) = res.n1

\* ------------------------------------------------------------------------
\* Sensitivity sweep (sensitivity/analysis.js, runSensitivityAnalysis)
\* ------------------------------------------------------------------------
\* Math.floor of a number.
NFloor(a) ==
  IF ~IsFinite(a) THEN a
  ELSE LET whole == BShl(BShr(a[2], FracLimbs), FracLimbs)
       IN  IF whole = a[2] THEN a
           ELSE IF a[1] = 1 THEN Mk(1, whole)
           ELSE NSub(Mk(-1, whole), One)

\* Math.round: the nearest integer, halves upwards.
NRound(a) == NFloor(NAdd(a, Half))

\* const numPoints = Math.floor((max - min) / step) + 1
NumPoints(min, max, step) == NAdd(NFloor(NDiv(NSub(max, min), step)), One)

\* The most passes of the sweep loop a behaviour follows.
MaxPoints == 60

\* Configurations [min, max, step] and whether the mode is a supported one:
\* the documented sweep 0.55 .. 0.75 by 0.05, sweeps of 26 to 50 nominal
\* points with steps of 0.0004, 0.0005, 0.001 and 0.0014, and rejected ones
\* (51 points, min >= max, step 0, a missing step).
SweepConfigs ==
  {[min |-> c[1], max |-> c[2], step |-> c[3], supported |-> s] :
     c \in {<<NDec(55, 2), NDec(75, 2), NDec(5, 2)>>,
            <<Zero, NDec(1, 2), NDec(4, 4)>>,
            <<Zero, NDec(1, 2), NDec(5, 4)>>,
            <<Zero, NDec(49, 3), NDec(1, 3)>>,
            <<Zero, NDec(68, 3), NDec(14, 4)>>,
            <<Zero, NDec(5, 2), NDec(1, 3)>>,
            <<NDec(75, 2), NDec(55, 2), NDec(5, 2)>>,
            <<NDec(55, 2), NDec(75, 2), Zero>>,
            <<NDec(55, 2), NDec(75, 2), Null>>},
     s \in BOOLEAN}

InitSweep ==
  /\ pc = "ready"
  /\ arg \in SweepConfigs
  /\ res = None
  /\ ci = None
  /\ cache = EmptyCache

\* Lines 37-54: the validation of the configuration; then let value = min.
SweepValidate ==
  /\ pc = "ready"
  /\ IF \/ arg.min = Null \/ arg.max = Null \/ arg.step = Null
        \/ NGe(arg.min, arg.max)
        \/ NLe(arg.step, Zero)
        \/ NGt(NumPoints(arg.min, arg.max, arg.step), NInt(50))
     THEN pc' = "error" /\ UNCHANGED <<res, ci>>
     ELSE pc' = "loop" /\ res' = <<>> /\ ci' = [value |-> arg.min]
  /\ UNCHANGED <<arg, cache>>

\* value = Math.round(value * 1000) / 1000
SweepRounded(value) == NDiv(NRound(NMul(value, NInt(1000))), NInt(1000))

\* Lines 57-197: one pass of the loop for a value <= max + 1e-10. The value
\* is rounded to three decimals in place; an unsupported mode returns an
\* error object (line 159); otherwise one point is pushed, by the try block
\* or by its catch, and value += step.
SweepPass ==
  /\ pc = "loop"
  /\ NLe(ci.value, NAdd(arg.max, TOL10))
  /\ Len(res) < MaxPoints
  /\ IF arg.supported
     THEN /\ res' = Append(res, SweepRounded(ci.value))
          /\ ci' = [value |-> NAdd(SweepRounded(ci.value), arg.step)]
          /\ pc' = "loop"
     ELSE pc' = "error" /\ UNCHANGED <<res, ci>>
  /\ UNCHANGED <<arg, cache>>

\* Lines 199-206: the loop condition fails and the results are returned.
SweepReturn ==
  /\ pc = "loop"
  /\ ~NLe(ci.value, NAdd(arg.max, TOL10))
  /\ pc' = "done"
  /\ UNCHANGED <<arg, res, ci, cache>>

NextSweep == SweepValidate \/ SweepPass \/ SweepReturn

SpecSweep == InitSweep /\ [][NextSweep]_vars

\* C24: for a configuration that passed validation the results array never
\* holds more than 50 points.
C24_AtMost50Points ==
  pc \in {"loop", "done"} => Len(res) <= 50

\* C24: the sweep of a configuration that passed validation does not stay in
\* its loop with the same value: every pass moves the value forward.
C24_SweepAdvances ==
  [][(pc = "loop" /\ pc' = "loop") => NGt(ci'.value, ci.value)]_vars

\* ------------------------------------------------------------------------
\* C23: the fallback of the FM boundary check
\* ------------------------------------------------------------------------
\* C23: when the Newton loop of calculateFMRMLE leaves through its boundary
\* check, for a feasible delta0 of either sign, the p1 it leaves has
\* 0 < p1 < 1 and 0 < p1 + delta0 < 1.
C23_FallbackFeasible ==
  (pc = "fm" /\ Feasible(arg.delta0) /\ res.path = "fallback")
    => /\ NGt(res.p1_rmle, Zero) /\ NLt(res.p1_rmle, One)
       /\ NGt(NAdd(res.p1_rmle, arg.delta0), Zero)
       /\ NLt(NAdd(res.p1_rmle, arg.delta0), One)

\* ------------------------------------------------------------------------
\* LRUCache as the Map and the doubly linked list of lru-cache.js
\* ------------------------------------------------------------------------
\* The most operations a behaviour applies to one cache.
MaxOps == 4

HeadId == 0                      \* this.head
TailId == 1                      \* this.tail
NoNode == -1                     \* undefined: no node
NodeIds == 0..(MaxOps + 2)
ListKeys == {"a", "b", "c"}

\* Lines 40-54: new LRUCache(capacity).
ListNew(capacity) ==
  [capacity |-> capacity, size |-> 0,
   map   |-> [k \in ListKeys |-> NoNode],
   next  |-> [n \in NodeIds |-> IF n = HeadId THEN TailId ELSE NoNode],
   prev  |-> [n \in NodeIds |-> IF n = TailId THEN HeadId ELSE NoNode],
   key   |-> [n \in NodeIds |-> "null"],
   value |-> [n \in NodeIds |-> "null"],
   alloc |-> 2, hits |-> 0, misses |-> 0]

\* Lines 72-75.
List_removeNode(c, node) ==
  [c EXCEPT !.next[c.prev[node]] = c.next[node],
            !.prev[c.next[node]] = c.prev[node]]

\* Lines 65-70.
List_addToHead(c, node) ==
  [c EXCEPT !.prev[node] = HeadId,
            !.next[node] = c.next[HeadId],
            !.prev[c.next[HeadId]] = node,
            !.next[HeadId] = node]

\* Lines 61-64.
List_moveToHead(c, node) == List_addToHead(List_removeNode(c, node), node)

\* Lines 104-117: the cache after get(key) and the value returned.
ListGet(c, key) ==
  IF c.map[key] = NoNode
  THEN [cache |-> [c EXCEPT !.misses = @ + 1], value |-> "undefined"]
  ELSE [cache |-> [List_moveToHead(c, c.map[key]) EXCEPT !.hits = @ + 1],
        value |-> c.value[c.map[key]]]

\* Lines 139-142: the tail's predecessor is unlinked, its key leaves the Map.
ListEvict(c) ==
  [List_removeNode(c, c.prev[TailId])
     EXCEPT !.map[c.key[c.prev[TailId]]] = NoNode, !.size = @ - 1]

\* Lines 131-136: a new node for the key, in the Map and at the head.
ListInsert(c, key, value) ==
  [List_addToHead([c EXCEPT !.key[c.alloc] = key, !.value[c.alloc] = value,
                            !.map[key] = c.alloc, !.alloc = @ + 1],
                  c.alloc)
     EXCEPT !.size = @ + 1]

\* Lines 124-145.
ListPut(c, key, value) ==
  IF c.map[key] # NoNode
  THEN List_moveToHead([c EXCEPT !.value[c.map[key]] = value], c.map[key])
  ELSE IF ListInsert(c, key, value).size > c.capacity
  THEN ListEvict(ListInsert(c, key, value))
  ELSE ListInsert(c, key, value)

\* Lines 152-154.
ListHas(c, key) == c.map[key] # NoNode

\* Faulty variant of ListDelete: the node stays linked.
ListDeleteLinked(c, key) ==
  IF c.map[key] = NoNode THEN [cache |-> c, value |-> FALSE]
  ELSE [cache |-> [c EXCEPT !.map[key] = NoNode, !.size = @ - 1],
        value |-> TRUE]

\* Lines 161-171.
ListDelete(c, key) ==
  IF c.map[key] = NoNode THEN [cache |-> c, value |-> FALSE]
  ELSE [cache |-> [List_removeNode(c, c.map[key])
                     EXCEPT !.map[key] = NoNode, !.size = @ - 1],
        value |-> TRUE]

\* Lines 176-183.
ListClear(c) ==
  [c EXCEPT !.map = [k \in ListKeys |-> NoNode], !.size = 0,
            !.next[HeadId] = TailId, !.prev[TailId] = HeadId,
            !.hits = 0, !.misses = 0]

\* ------------------------------------------------------------------------
\* Cache specification: put, get, has, delete and clear in any order on a
\* cache of capacity 1 or 2
\* ------------------------------------------------------------------------
InitLRU ==
  /\ pc = "new"
  /\ arg = [ops |-> 0]
  /\ res = None
  /\ ci = None
  /\ cache \in {ListNew(1), ListNew(2)}

CallPut ==
  /\ arg.ops < MaxOps
  /\ \E k \in ListKeys : cache' = ListPut(cache, k, "v")
  /\ pc' = "put" /\ res' = None /\ arg' = [ops |-> arg.ops + 1]
  /\ UNCHANGED ci

CallGet ==
  /\ arg.ops < MaxOps
  /\ \E k \in ListKeys :
       cache' = ListGet(cache, k).cache /\ res' = ListGet(cache, k).value
  /\ pc' = "get" /\ arg' = [ops |-> arg.ops + 1]
  /\ UNCHANGED ci

CallHas ==
  /\ arg.ops < MaxOps
  /\ \E k \in ListKeys : res' = ListHas(cache, k)
  /\ pc' = "has" /\ arg' = [ops |-> arg.ops + 1]
  /\ UNCHANGED <<cache, ci>>

CallDelete ==
  /\ arg.ops < MaxOps
  /\ \E k \in ListKeys :
       cache' = ListDelete(cache, k).cache /\ res' = ListDelete(cache, k).value
  /\ pc' = "delete" /\ arg' = [ops |-> arg.ops + 1]
  /\ UNCHANGED ci

CallClear ==
  /\ arg.ops < MaxOps
  /\ cache' = ListClear(cache)
  /\ pc' = "clear" /\ res' = None /\ arg' = [ops |-> arg.ops + 1]
  /\ UNCHANGED ci

NextLRU == CallPut \/ CallGet \/ CallHas \/ CallDelete \/ CallClear

SpecLRU == InitLRU /\ [][NextLRU]_vars

\* The nodes reached from node n by next, up to the tail sentinel (at most
\* fuel of them).
RECURSIVE Linked(_, _, _)
Linked(c, n, fuel) ==
  IF n = TailId \/ n = NoNode \/ fuel = 0 THEN <<>>
  ELSE <<n>> \o Linked(c, c.next[n], fuel - 1)

LinkedNodes(c) == Linked(c, c.next[HeadId], MaxOps + 2)

\* The same nodes read from the tail by prev, in the order of next.
RECURSIVE LinkedBack(_, _, _)
LinkedBack(c, n, fuel) ==
  IF n = HeadId \/ n = NoNode \/ fuel = 0 THEN <<>>
  ELSE LinkedBack(c, c.prev[n], fuel - 1) \o <<n>>

\* C25: after any sequence of put, get, has, delete and clear, size is the
\* number of Map entries and the number of nodes linked between the
\* sentinels (in either direction), every key of the Map is held by exactly
\* one linked node, which is the node the Map gives, and 0 <= size <=
\* capacity.
C25_CacheConsistent ==
  LET nodes == LinkedNodes(cache)
  IN  /\ cache.size = Cardinality({k \in ListKeys : cache.map[k] # NoNode})
      /\ cache.size = Len(nodes)
      /\ nodes = LinkedBack(cache, cache.prev[TailId], MaxOps + 2)
      /\ \A k \in ListKeys :
           Cardinality({i \in 1..Len(nodes) : cache.key[nodes[i]] = k})
             = IF cache.map[k] # NoNode THEN 1 ELSE 0
      /\ \A i \in 1..Len(nodes) : cache.map[cache.key[nodes[i]]] = nodes[i]
      /\ 0 <= cache.size /\ cache.size <= cache.capacity

\* A full cache of capacity 2 after a put that evicted a node and a delete.
C25_Witness ==
  /\ pc = "delete" /\ res = TRUE
  /\ cache.capacity = 2 /\ cache.size = 1
  /\ cache.alloc = 5
  /\ Len(LinkedNodes(cache)) = 1

\* ------------------------------------------------------------------------
\* C26: the interval and the point estimate
\* ------------------------------------------------------------------------
\* C26: for every valid sample and every critical value z_alpha > 0 the
\* interval returned by calculateMNResult contains the observed difference:
\* ci_lower <= diff <= ci_upper.
C26_IntervalContainsDiff ==
  (pc = "mn_result" /\ ValidSample /\ IsFinite(arg.z_alpha)
   /\ NGt(arg.z_alpha, Zero))
    => /\ NLe(res.ci_lower, ObsDiff(NInt(arg.x1), NInt(arg.n1), NInt(arg.x2),
                                    NInt(arg.n2)))
       /\ NLe(ObsDiff(NInt(arg.x1), NInt(arg.n1), NInt(arg.x2), NInt(arg.n2)),
              res.ci_upper)

\* ------------------------------------------------------------------------
\* Bisection specification: the loop of calculateMNConstrainedMLE pass by
\* pass
\* ------------------------------------------------------------------------
BisectCalls ==
  {[x1 |-> c[1], n1 |-> c[2], x2 |-> c[3], n2 |-> c[4], delta0 |-> d] :
     c \in {<<1, 2, 1, 2>>, <<0, 2, 1, 2>>, <<1, 1, 1, 2>>, <<8, 20, 10, 20>>,
            <<0, 1, 0, 1>>},
     d \in {NDec(1, 1), NDec(-1, 1), NDec(5, 1), NDec(-5, 1)}}

InitBisect ==
  /\ pc = "ready"
  /\ arg \in BisectCalls
  /\ res = None
  /\ ci = None
  /\ cache = EmptyCache

\* Lines 96-141: the returns before the loop, or let lo = p1_min and
\* hi = p1_max.
BisectEnter ==
  /\ pc = "ready"
  /\ \E r \in {calculateMNConstrainedMLE(NInt(arg.x1), NInt(arg.n1),
                                         NInt(arg.x2), NInt(arg.n2),
                                         arg.delta0)} :
       IF r.path \in {"bisect", "cap"}
       THEN /\ pc' = "bisect"
            /\ ci' = [lo |-> MNP1Min(arg.delta0), hi |-> MNP1Max(arg.delta0),
                      i |-> 0, out |-> None]
            /\ UNCHANGED res
       ELSE pc' = "mn" /\ res' = r /\ UNCHANGED ci
  /\ UNCHANGED <<arg, cache>>

\* Lines 143-159: one pass of the loop, or the return after the last one.
BisectPass ==
  /\ pc = "bisect"
  /\ \E st \in {MNBisectStep(NInt(arg.x1), NInt(arg.n1), NInt(arg.x2),
                             NInt(arg.n2), arg.delta0, ci)} :
       IF st.out = None
       THEN pc' = "bisect" /\ ci' = st /\ UNCHANGED res
       ELSE pc' = "mn" /\ res' = st.out /\ ci' = st
  /\ UNCHANGED <<arg, cache>>

NextBisect == BisectEnter \/ BisectPass

SpecBisect == InitBisect /\ [][NextBisect]_vars

\* The score of the sample of the state at p1.
ScoreAt(p1) ==
  scoreFunc(NInt(arg.x1), NInt(arg.n1), NInt(arg.x2), NInt(arg.n2),
            arg.delta0, p1)

\* C27: at the start of every pass of the bisection p1_min <= lo < hi <=
\* p1_max, score(lo) > 0 and score(hi) < 0; the p1 it returns lies between
\* p1_min and p1_max, with p2 = p1 + delta0 inside (0, 1), and is the value
\* calculateMNConstrainedMLE returns.
C27_BracketInvariant ==
  /\ pc = "bisect"
       => /\ NLe(MNP1Min(arg.delta0), ci.lo)
          /\ NLt(ci.lo, ci.hi)
          /\ NLe(ci.hi, MNP1Max(arg.delta0))
          /\ NGt(ScoreAt(ci.lo), Zero)
          /\ NLt(ScoreAt(ci.hi), Zero)
  /\ (pc = "mn" /\ res.path \in {"bisect", "cap"})
       => /\ NLe(MNP1Min(arg.delta0), res.p1_mle)
          /\ NLe(res.p1_mle, MNP1Max(arg.delta0))
          /\ NLe(ci.lo, res.p1_mle) /\ NLe(res.p1_mle, ci.hi)
          /\ res.p2_mle = NAdd(res.p1_mle, arg.delta0)
          /\ NGt(res.p2_mle, Zero) /\ NLt(res.p2_mle, One)
          /\ res = calculateMNConstrainedMLE(NInt(arg.x1), NInt(arg.n1),
                                             NInt(arg.x2), NInt(arg.n2),
                                             arg.delta0)

\* The bisection for 8/20 against 10/20 at delta0 = -0.1 has narrowed both
\* ends of its bracket and is at the start of a later pass.
C27_Witness ==
  /\ pc = "bisect"
  /\ arg.n1 = 20 /\ arg.delta0 = NDec(-1, 1)
  /\ ci.i >= 10
  /\ NGt(ci.lo, MNP1Min(arg.delta0))
  /\ NLt(ci.hi, MNP1Max(arg.delta0))

\* ------------------------------------------------------------------------
\* C28: the loops end before their caps
\* ------------------------------------------------------------------------
\* A valid sample with a finite hypothesized difference and critical value.
FiniteCall == ValidSample /\ IsFinite(arg.delta0) /\ IsFinite(arg.z_alpha)

C29_ConclusionMatchesPValue ==
  (/\ pc = "ni" /\ arg.method = "mn"
   /\ OrdinaryCall(arg)
   /\ NGt(arg.alpha, Zero) /\ NLt(arg.alpha, Half)
   /\ NGt(NAbs(NAdd(res.ci_lower, arg.delta)), EPS8))
    => (res.isNonInferior <=> NLt(res.p_value, arg.alpha))

\* ------------------------------------------------------------------------
\* C30: the methods 'fm' and 'wald' of calculateEqResult
\* ------------------------------------------------------------------------
\* The object calculateEqResult returns for the arguments of the state with
\* method m.
EqResultWith(m) ==
  calculateEqResult(EmptyCache, arg.n1, arg.s1, arg.n2, arg.s2, arg.delta,
                    arg.alpha, arg.useContinuity, m).value

====
